---- MODULE Spec2Model ----
(***************************************************************************)
(* Receipt scanning of moniezi-v12: the learning store (learned merchants  *)
(* in localStorage), the category classifier, and the scan pipelines, in   *)
(* the three versions of the offline OCR engine the repository holds:      *)
(*   V1  src/services/offlineOCR.ts  (Tesseract only)                      *)
(*   V2  src/unnamed/part_001        (delegates to services/nativeOCR.ts)  *)
(*   V3  src/unnamed/part_000        (improved PWA version)                *)
(* Strings are TLA+ strings; a nullable value is None or Some(v).          *)
(***************************************************************************)
EXTENDS Integers, Sequences, FiniteSets, TLC

VARIABLES
  stored,  \* localStorage[LEARNED_MERCHANTS_KEY]: None, or Some(the persisted array)
  clock,   \* the wall clock read by new Date(); also counts the record calls made
  last,    \* the last call on the store or the classifier: its arguments and outcome
  version,       \* the version of the pipeline whose scans run
  nativePlugin,  \* isNativePlatform() && getNativePlugin() !== null
  engine,        \* the module variables that hold the Tesseract worker
  workers,       \* the workers createWorker was called for, each with its state
  scans          \* the scans, each with its position and its local variables

storeVars == <<stored, clock, last>>

scanVars == <<version, nativePlugin, engine, workers, scans>>

vars == <<stored, clock, last, version, nativePlugin, engine, workers, scans>>

(***************************************************************************)
(* Nullable values and strings                                             *)
(***************************************************************************)
None == <<>>
Some(v) == <<v>>
IsSome(m) == m # None
Value(m) == m[1]

Versions == {"V1", "V2", "V3"}

UpperToLower ==
  [c \in {"A", "B", "C", "D", "E", "F", "G", "H", "I", "J", "K", "L", "M",
          "N", "O", "P", "Q", "R", "S", "T", "U", "V", "W", "X", "Y", "Z"} |->
     CASE c = "A" -> "a" [] c = "B" -> "b" [] c = "C" -> "c" [] c = "D" -> "d"
       [] c = "E" -> "e" [] c = "F" -> "f" [] c = "G" -> "g" [] c = "H" -> "h"
       [] c = "I" -> "i" [] c = "J" -> "j" [] c = "K" -> "k" [] c = "L" -> "l"
       [] c = "M" -> "m" [] c = "N" -> "n" [] c = "O" -> "o" [] c = "P" -> "p"
       [] c = "Q" -> "q" [] c = "R" -> "r" [] c = "S" -> "s" [] c = "T" -> "t"
       [] c = "U" -> "u" [] c = "V" -> "v" [] c = "W" -> "w" [] c = "X" -> "x"
       [] c = "Y" -> "y" [] c = "Z" -> "z"]

\* String.prototype.toLowerCase, one character at a time (the string is halved
\* until single characters are left)
RECURSIVE ToLowerCase(_)
ToLowerCase(s) ==
  IF Len(s) = 0 THEN ""
  ELSE IF Len(s) = 1 THEN (IF s \in DOMAIN UpperToLower THEN UpperToLower[s] ELSE s)
  ELSE ToLowerCase(SubSeq(s, 1, Len(s) \div 2))
         \o ToLowerCase(SubSeq(s, Len(s) \div 2 + 1, Len(s)))

WhiteSpace == {" ", "\t", "\n", "\r"}

RECURSIVE TrimStart(_)
TrimStart(s) ==
  IF Len(s) > 0 /\ SubSeq(s, 1, 1) \in WhiteSpace
    THEN TrimStart(SubSeq(s, 2, Len(s)))
    ELSE s

RECURSIVE TrimEnd(_)
TrimEnd(s) ==
  IF Len(s) > 0 /\ SubSeq(s, Len(s), Len(s)) \in WhiteSpace
    THEN TrimEnd(SubSeq(s, 1, Len(s) - 1))
    ELSE s

\* String.prototype.trim
Trim(s) == TrimEnd(TrimStart(s))

\* String.prototype.includes: p occurs in s (the empty string occurs in every string)
Includes(s, p) ==
  \E i \in 0..(Len(s) - Len(p)) : SubSeq(s, i + 1, i + Len(p)) = p

\* Array.prototype.slice(a, b)
Slice(seq, a, b) == SubSeq(seq, a + 1, IF b < Len(seq) THEN b ELSE Len(seq))

Range(seq) == {seq[i] : i \in DOMAIN seq}

(***************************************************************************)
(* The static tables, one per version                                      *)
(***************************************************************************)
\* services/offlineOCR.ts lines 59-151: BUILT_IN_MERCHANTS, in table order
BUILT_IN_MERCHANTS_V1 ==
  <<
    [patterns |-> <<"starbucks", "sbux">>, category |-> "Meals (Business)", displayName |-> "Starbucks"],
    [patterns |-> <<"mcdonalds", "mcdonald's", "mcd">>, category |-> "Meals (Business)", displayName |-> "McDonald's"],
    [patterns |-> <<"subway">>, category |-> "Meals (Business)", displayName |-> "Subway"],
    [patterns |-> <<"chipotle">>, category |-> "Meals (Business)", displayName |-> "Chipotle"],
    [patterns |-> <<"panera">>, category |-> "Meals (Business)", displayName |-> "Panera Bread"],
    [patterns |-> <<"dunkin", "donuts">>, category |-> "Meals (Business)", displayName |-> "Dunkin"],
    [patterns |-> <<"dominos", "domino's">>, category |-> "Meals (Business)", displayName |-> "Domino's"],
    [patterns |-> <<"pizza hut">>, category |-> "Meals (Business)", displayName |-> "Pizza Hut"],
    [patterns |-> <<"uber eats", "ubereats">>, category |-> "Meals (Business)", displayName |-> "Uber Eats"],
    [patterns |-> <<"doordash">>, category |-> "Meals (Business)", displayName |-> "DoorDash"],
    [patterns |-> <<"grubhub">>, category |-> "Meals (Business)", displayName |-> "Grubhub"],
    [patterns |-> <<"shell">>, category |-> "Travel", displayName |-> "Shell"],
    [patterns |-> <<"chevron">>, category |-> "Travel", displayName |-> "Chevron"],
    [patterns |-> <<"exxon", "mobil">>, category |-> "Travel", displayName |-> "Exxon"],
    [patterns |-> <<"bp">>, category |-> "Travel", displayName |-> "BP"],
    [patterns |-> <<"76", "seventy six">>, category |-> "Travel", displayName |-> "76"],
    [patterns |-> <<"arco">>, category |-> "Travel", displayName |-> "ARCO"],
    [patterns |-> <<"costco gas", "costco fuel">>, category |-> "Travel", displayName |-> "Costco Gas"],
    [patterns |-> <<"sams club gas">>, category |-> "Travel", displayName |-> "Sam's Club Gas"],
    [patterns |-> <<"staples">>, category |-> "Office Supplies", displayName |-> "Staples"],
    [patterns |-> <<"office depot", "officemax">>, category |-> "Office Supplies", displayName |-> "Office Depot"],
    [patterns |-> <<"best buy">>, category |-> "Equipment", displayName |-> "Best Buy"],
    [patterns |-> <<"apple store", "apple.com">>, category |-> "Equipment", displayName |-> "Apple"],
    [patterns |-> <<"amazon", "amzn">>, category |-> "Office Supplies", displayName |-> "Amazon"],
    [patterns |-> <<"adobe", "creative cloud">>, category |-> "Software / SaaS", displayName |-> "Adobe"],
    [patterns |-> <<"microsoft", "msft", "office 365", "m365">>, category |-> "Software / SaaS", displayName |-> "Microsoft"],
    [patterns |-> <<"google", "goog">>, category |-> "Software / SaaS", displayName |-> "Google"],
    [patterns |-> <<"dropbox">>, category |-> "Software / SaaS", displayName |-> "Dropbox"],
    [patterns |-> <<"slack">>, category |-> "Software / SaaS", displayName |-> "Slack"],
    [patterns |-> <<"zoom">>, category |-> "Software / SaaS", displayName |-> "Zoom"],
    [patterns |-> <<"notion">>, category |-> "Software / SaaS", displayName |-> "Notion"],
    [patterns |-> <<"figma">>, category |-> "Software / SaaS", displayName |-> "Figma"],
    [patterns |-> <<"canva">>, category |-> "Software / SaaS", displayName |-> "Canva"],
    [patterns |-> <<"mailchimp">>, category |-> "Software / SaaS", displayName |-> "Mailchimp"],
    [patterns |-> <<"quickbooks", "intuit">>, category |-> "Software / SaaS", displayName |-> "QuickBooks"],
    [patterns |-> <<"verizon", "vzw">>, category |-> "Phone / Internet", displayName |-> "Verizon"],
    [patterns |-> <<"at&t", "att">>, category |-> "Phone / Internet", displayName |-> "AT&T"],
    [patterns |-> <<"t-mobile", "tmobile">>, category |-> "Phone / Internet", displayName |-> "T-Mobile"],
    [patterns |-> <<"comcast", "xfinity">>, category |-> "Phone / Internet", displayName |-> "Comcast"],
    [patterns |-> <<"spectrum">>, category |-> "Phone / Internet", displayName |-> "Spectrum"],
    [patterns |-> <<"uber", "uber trip">>, category |-> "Travel", displayName |-> "Uber"],
    [patterns |-> <<"lyft">>, category |-> "Travel", displayName |-> "Lyft"],
    [patterns |-> <<"delta", "delta air">>, category |-> "Travel", displayName |-> "Delta Airlines"],
    [patterns |-> <<"united", "united air">>, category |-> "Travel", displayName |-> "United Airlines"],
    [patterns |-> <<"american air", "aa.com">>, category |-> "Travel", displayName |-> "American Airlines"],
    [patterns |-> <<"southwest", "swa">>, category |-> "Travel", displayName |-> "Southwest"],
    [patterns |-> <<"hilton">>, category |-> "Travel", displayName |-> "Hilton"],
    [patterns |-> <<"marriott">>, category |-> "Travel", displayName |-> "Marriott"],
    [patterns |-> <<"airbnb">>, category |-> "Travel", displayName |-> "Airbnb"],
    [patterns |-> <<"hertz">>, category |-> "Travel", displayName |-> "Hertz"],
    [patterns |-> <<"enterprise">>, category |-> "Travel", displayName |-> "Enterprise"],
    [patterns |-> <<"walmart", "wal-mart">>, category |-> "Office Supplies", displayName |-> "Walmart"],
    [patterns |-> <<"target">>, category |-> "Office Supplies", displayName |-> "Target"],
    [patterns |-> <<"costco">>, category |-> "Office Supplies", displayName |-> "Costco"],
    [patterns |-> <<"sams club", "sam's">>, category |-> "Office Supplies", displayName |-> "Sam's Club"],
    [patterns |-> <<"home depot">>, category |-> "Equipment", displayName |-> "Home Depot"],
    [patterns |-> <<"lowes", "lowe's">>, category |-> "Equipment", displayName |-> "Lowe's"],
    [patterns |-> <<"usps", "postal service">>, category |-> "Shipping / Delivery", displayName |-> "USPS"],
    [patterns |-> <<"fedex">>, category |-> "Shipping / Delivery", displayName |-> "FedEx"],
    [patterns |-> <<"ups">>, category |-> "Shipping / Delivery", displayName |-> "UPS"],
    [patterns |-> <<"dhl">>, category |-> "Shipping / Delivery", displayName |-> "DHL"],
    [patterns |-> <<"chase", "jpmorgan">>, category |-> "Bank Fees", displayName |-> "Chase"],
    [patterns |-> <<"bank of america", "bofa">>, category |-> "Bank Fees", displayName |-> "Bank of America"],
    [patterns |-> <<"wells fargo">>, category |-> "Bank Fees", displayName |-> "Wells Fargo"],
    [patterns |-> <<"citi", "citibank">>, category |-> "Bank Fees", displayName |-> "Citibank"],
    [patterns |-> <<"paypal">>, category |-> "Bank Fees", displayName |-> "PayPal"],
    [patterns |-> <<"stripe">>, category |-> "Bank Fees", displayName |-> "Stripe"],
    [patterns |-> <<"square">>, category |-> "Bank Fees", displayName |-> "Square"],
    [patterns |-> <<"facebook ads", "meta ads">>, category |-> "Advertising / Marketing", displayName |-> "Meta Ads"],
    [patterns |-> <<"google ads", "adwords">>, category |-> "Advertising / Marketing", displayName |-> "Google Ads"],
    [patterns |-> <<"linkedin ads">>, category |-> "Advertising / Marketing", displayName |-> "LinkedIn Ads"],
    [patterns |-> <<"yelp ads">>, category |-> "Advertising / Marketing", displayName |-> "Yelp Ads"]
  >>

\* services/offlineOCR.ts lines 154-167: CATEGORY_KEYWORDS, in declaration (Object.entries) order
CATEGORY_KEYWORDS_V1 ==
  <<
    [category |-> "Meals (Business)", keywords |-> <<
      "restaurant", "cafe", "coffee", "food", "diner", "grill", "bistro", "kitchen", "eatery",
      "bar & grill", "pizzeria", "bakery", "deli", "catering"
    >>],
    [category |-> "Travel", keywords |-> <<
      "gas", "fuel", "petroleum", "airline", "hotel", "motel", "rental car", "parking", "toll",
      "transit", "taxi", "rideshare", "airport"
    >>],
    [category |-> "Office Supplies", keywords |-> <<
      "office", "supplies", "paper", "ink", "toner", "stationery"
    >>],
    [category |-> "Equipment", keywords |-> <<
      "computer", "laptop", "monitor", "printer", "electronics", "hardware", "device"
    >>],
    [category |-> "Software / SaaS", keywords |-> <<
      "software", "subscription", "cloud", "app", "license", "saas", "monthly plan"
    >>],
    [category |-> "Phone / Internet", keywords |-> <<
      "wireless", "cellular", "internet", "broadband", "wifi", "telecom", "mobile"
    >>],
    [category |-> "Shipping / Delivery", keywords |-> <<
      "shipping", "postage", "courier", "freight", "delivery", "mailing"
    >>],
    [category |-> "Advertising / Marketing", keywords |-> <<
      "advertising", "marketing", "promotion", "ads", "campaign", "sponsor"
    >>],
    [category |-> "Professional Services", keywords |-> <<
      "legal", "attorney", "lawyer", "accounting", "cpa", "consulting", "professional"
    >>],
    [category |-> "Insurance", keywords |-> <<
      "insurance", "coverage", "policy", "premium"
    >>],
    [category |-> "Utilities", keywords |-> <<
      "electric", "water", "sewer", "utility", "power", "energy"
    >>],
    [category |-> "Rent / Workspace", keywords |-> <<
      "rent", "lease", "coworking", "office space", "workspace"
    >>]
  >>

\* unnamed/part_001 lines 52-124: BUILT_IN_MERCHANTS, in table order
BUILT_IN_MERCHANTS_V2 ==
  <<
    [patterns |-> <<"spar", "spar albania", "eurospar", "interspar">>, category |-> "Office Supplies", displayName |-> "SPAR"],
    [patterns |-> <<"lidl">>, category |-> "Office Supplies", displayName |-> "Lidl"],
    [patterns |-> <<"aldi", "aldi nord", "aldi sud">>, category |-> "Office Supplies", displayName |-> "Aldi"],
    [patterns |-> <<"carrefour">>, category |-> "Office Supplies", displayName |-> "Carrefour"],
    [patterns |-> <<"tesco">>, category |-> "Office Supplies", displayName |-> "Tesco"],
    [patterns |-> <<"rewe">>, category |-> "Office Supplies", displayName |-> "REWE"],
    [patterns |-> <<"edeka">>, category |-> "Office Supplies", displayName |-> "Edeka"],
    [patterns |-> <<"kaufland">>, category |-> "Office Supplies", displayName |-> "Kaufland"],
    [patterns |-> <<"billa">>, category |-> "Office Supplies", displayName |-> "Billa"],
    [patterns |-> <<"penny">>, category |-> "Office Supplies", displayName |-> "Penny"],
    [patterns |-> <<"migros">>, category |-> "Office Supplies", displayName |-> "Migros"],
    [patterns |-> <<"mercadona">>, category |-> "Office Supplies", displayName |-> "Mercadona"],
    [patterns |-> <<"starbucks", "sbux">>, category |-> "Meals (Business)", displayName |-> "Starbucks"],
    [patterns |-> <<"mcdonalds", "mcdonald's">>, category |-> "Meals (Business)", displayName |-> "McDonald's"],
    [patterns |-> <<"subway">>, category |-> "Meals (Business)", displayName |-> "Subway"],
    [patterns |-> <<"chipotle">>, category |-> "Meals (Business)", displayName |-> "Chipotle"],
    [patterns |-> <<"uber eats">>, category |-> "Meals (Business)", displayName |-> "Uber Eats"],
    [patterns |-> <<"doordash">>, category |-> "Meals (Business)", displayName |-> "DoorDash"],
    [patterns |-> <<"shell">>, category |-> "Travel", displayName |-> "Shell"],
    [patterns |-> <<"chevron">>, category |-> "Travel", displayName |-> "Chevron"],
    [patterns |-> <<"exxon", "mobil", "esso">>, category |-> "Travel", displayName |-> "Exxon"],
    [patterns |-> <<"bp">>, category |-> "Travel", displayName |-> "BP"],
    [patterns |-> <<"total energies">>, category |-> "Travel", displayName |-> "TotalEnergies"],
    [patterns |-> <<"omv">>, category |-> "Travel", displayName |-> "OMV"],
    [patterns |-> <<"staples">>, category |-> "Office Supplies", displayName |-> "Staples"],
    [patterns |-> <<"amazon", "amzn">>, category |-> "Office Supplies", displayName |-> "Amazon"],
    [patterns |-> <<"best buy">>, category |-> "Equipment", displayName |-> "Best Buy"],
    [patterns |-> <<"apple store", "apple.com">>, category |-> "Equipment", displayName |-> "Apple"],
    [patterns |-> <<"media markt">>, category |-> "Equipment", displayName |-> "MediaMarkt"],
    [patterns |-> <<"adobe", "creative cloud">>, category |-> "Software / SaaS", displayName |-> "Adobe"],
    [patterns |-> <<"microsoft", "office 365">>, category |-> "Software / SaaS", displayName |-> "Microsoft"],
    [patterns |-> <<"google">>, category |-> "Software / SaaS", displayName |-> "Google"],
    [patterns |-> <<"dropbox">>, category |-> "Software / SaaS", displayName |-> "Dropbox"],
    [patterns |-> <<"slack">>, category |-> "Software / SaaS", displayName |-> "Slack"],
    [patterns |-> <<"zoom">>, category |-> "Software / SaaS", displayName |-> "Zoom"],
    [patterns |-> <<"uber", "uber trip">>, category |-> "Travel", displayName |-> "Uber"],
    [patterns |-> <<"lyft">>, category |-> "Travel", displayName |-> "Lyft"],
    [patterns |-> <<"bolt">>, category |-> "Travel", displayName |-> "Bolt"],
    [patterns |-> <<"airbnb">>, category |-> "Travel", displayName |-> "Airbnb"],
    [patterns |-> <<"booking.com">>, category |-> "Travel", displayName |-> "Booking.com"],
    [patterns |-> <<"ryanair">>, category |-> "Travel", displayName |-> "Ryanair"],
    [patterns |-> <<"wizzair", "wizz air">>, category |-> "Travel", displayName |-> "Wizz Air"],
    [patterns |-> <<"walmart">>, category |-> "Office Supplies", displayName |-> "Walmart"],
    [patterns |-> <<"target">>, category |-> "Office Supplies", displayName |-> "Target"],
    [patterns |-> <<"costco">>, category |-> "Office Supplies", displayName |-> "Costco"],
    [patterns |-> <<"home depot">>, category |-> "Equipment", displayName |-> "Home Depot"],
    [patterns |-> <<"usps", "postal service">>, category |-> "Shipping / Delivery", displayName |-> "USPS"],
    [patterns |-> <<"fedex">>, category |-> "Shipping / Delivery", displayName |-> "FedEx"],
    [patterns |-> <<"ups">>, category |-> "Shipping / Delivery", displayName |-> "UPS"],
    [patterns |-> <<"dhl">>, category |-> "Shipping / Delivery", displayName |-> "DHL"],
    [patterns |-> <<"paypal">>, category |-> "Bank Fees", displayName |-> "PayPal"],
    [patterns |-> <<"stripe">>, category |-> "Bank Fees", displayName |-> "Stripe"],
    [patterns |-> <<"wise", "transferwise">>, category |-> "Bank Fees", displayName |-> "Wise"],
    [patterns |-> <<"revolut">>, category |-> "Bank Fees", displayName |-> "Revolut"]
  >>

\* unnamed/part_001 lines 127-142: CATEGORY_KEYWORDS, in declaration (Object.entries) order
CATEGORY_KEYWORDS_V2 ==
  <<
    [category |-> "Meals (Business)", keywords |-> <<
      "restaurant", "cafe", "coffee", "food", "diner", "grill", "bistro", "pizzeria", "bakery",
      "deli", "bar", "ristorante", "trattoria", "gasthaus", "bÃ¤ckerei", "brasserie",
      "boulangerie", "restorant", "kafe"
    >>],
    [category |-> "Travel", keywords |-> <<
      "gas", "fuel", "petroleum", "airline", "hotel", "motel", "parking", "toll", "transit",
      "taxi", "airport", "benzin", "tankstelle", "aeroporto", "flughafen", "aeroport"
    >>],
    [category |-> "Office Supplies", keywords |-> <<
      "office", "supplies", "paper", "ink", "stationery"
    >>],
    [category |-> "Equipment", keywords |-> <<
      "computer", "laptop", "monitor", "printer", "electronics", "hardware"
    >>],
    [category |-> "Software / SaaS", keywords |-> <<
      "software", "subscription", "cloud", "app", "license", "saas"
    >>],
    [category |-> "Shipping / Delivery", keywords |-> <<
      "shipping", "postage", "courier", "freight", "delivery"
    >>]
  >>

\* unnamed/part_000 lines 87-357: BUILT_IN_MERCHANTS, in table order
BUILT_IN_MERCHANTS_V3 ==
  <<
    [patterns |-> <<"spar", "eurospar", "interspar", "spar albania", "spar express">>, category |-> "Office Supplies", displayName |-> "SPAR"],
    [patterns |-> <<"lidl", "lidl stiftung">>, category |-> "Office Supplies", displayName |-> "Lidl"],
    [patterns |-> <<"aldi", "aldi nord", "aldi sud", "aldi süd">>, category |-> "Office Supplies", displayName |-> "Aldi"],
    [patterns |-> <<"kaufland">>, category |-> "Office Supplies", displayName |-> "Kaufland"],
    [patterns |-> <<"rewe", "rewe city", "rewe center">>, category |-> "Office Supplies", displayName |-> "REWE"],
    [patterns |-> <<"edeka", "e center", "marktkauf">>, category |-> "Office Supplies", displayName |-> "Edeka"],
    [patterns |-> <<"penny", "penny markt", "penny market">>, category |-> "Office Supplies", displayName |-> "Penny"],
    [patterns |-> <<"netto", "netto marken">>, category |-> "Office Supplies", displayName |-> "Netto"],
    [patterns |-> <<"dm", "dm drogerie", "dm-drogerie">>, category |-> "Office Supplies", displayName |-> "dm"],
    [patterns |-> <<"rossmann">>, category |-> "Office Supplies", displayName |-> "Rossmann"],
    [patterns |-> <<"muller", "müller", "mueller">>, category |-> "Office Supplies", displayName |-> "Müller"],
    [patterns |-> <<"billa", "billa plus">>, category |-> "Office Supplies", displayName |-> "Billa"],
    [patterns |-> <<"hofer">>, category |-> "Office Supplies", displayName |-> "Hofer"],
    [patterns |-> <<"mercator">>, category |-> "Office Supplies", displayName |-> "Mercator"],
    [patterns |-> <<"konzum">>, category |-> "Office Supplies", displayName |-> "Konzum"],
    [patterns |-> <<"carrefour", "carrefour express", "carrefour market">>, category |-> "Office Supplies", displayName |-> "Carrefour"],
    [patterns |-> <<"tesco", "tesco express", "tesco metro">>, category |-> "Office Supplies", displayName |-> "Tesco"],
    [patterns |-> <<"sainsbury", "sainsbury's">>, category |-> "Office Supplies", displayName |-> "Sainsbury's"],
    [patterns |-> <<"asda">>, category |-> "Office Supplies", displayName |-> "ASDA"],
    [patterns |-> <<"morrisons">>, category |-> "Office Supplies", displayName |-> "Morrisons"],
    [patterns |-> <<"waitrose">>, category |-> "Office Supplies", displayName |-> "Waitrose"],
    [patterns |-> <<"migros">>, category |-> "Office Supplies", displayName |-> "Migros"],
    [patterns |-> <<"coop", "coop city", "coop pronto">>, category |-> "Office Supplies", displayName |-> "Coop"],
    [patterns |-> <<"denner">>, category |-> "Office Supplies", displayName |-> "Denner"],
    [patterns |-> <<"albert heijn", "ah", "albert">>, category |-> "Office Supplies", displayName |-> "Albert Heijn"],
    [patterns |-> <<"jumbo">>, category |-> "Office Supplies", displayName |-> "Jumbo"],
    [patterns |-> <<"delhaize", "ad delhaize">>, category |-> "Office Supplies", displayName |-> "Delhaize"],
    [patterns |-> <<"colruyt">>, category |-> "Office Supplies", displayName |-> "Colruyt"],
    [patterns |-> <<"auchan">>, category |-> "Office Supplies", displayName |-> "Auchan"],
    [patterns |-> <<"leclerc", "e.leclerc">>, category |-> "Office Supplies", displayName |-> "E.Leclerc"],
    [patterns |-> <<"intermarche", "intermarch">>, category |-> "Office Supplies", displayName |-> "Intermarché"],
    [patterns |-> <<"monoprix">>, category |-> "Office Supplies", displayName |-> "Monoprix"],
    [patterns |-> <<"mercadona">>, category |-> "Office Supplies", displayName |-> "Mercadona"],
    [patterns |-> <<"eroski">>, category |-> "Office Supplies", displayName |-> "Eroski"],
    [patterns |-> <<"dia", "dia %">>, category |-> "Office Supplies", displayName |-> "DIA"],
    [patterns |-> <<"pingo doce">>, category |-> "Office Supplies", displayName |-> "Pingo Doce"],
    [patterns |-> <<"continente">>, category |-> "Office Supplies", displayName |-> "Continente"],
    [patterns |-> <<"esselunga">>, category |-> "Office Supplies", displayName |-> "Esselunga"],
    [patterns |-> <<"conad">>, category |-> "Office Supplies", displayName |-> "Conad"],
    [patterns |-> <<"eurospin">>, category |-> "Office Supplies", displayName |-> "Eurospin"],
    [patterns |-> <<"despar">>, category |-> "Office Supplies", displayName |-> "Despar"],
    [patterns |-> <<"biedronka">>, category |-> "Office Supplies", displayName |-> "Biedronka"],
    [patterns |-> <<"zabka", "¿abka">>, category |-> "Office Supplies", displayName |-> "¡abka"],
    [patterns |-> <<"walmart", "wal-mart", "wal mart">>, category |-> "Office Supplies", displayName |-> "Walmart"],
    [patterns |-> <<"target">>, category |-> "Office Supplies", displayName |-> "Target"],
    [patterns |-> <<"costco", "costco wholesale">>, category |-> "Office Supplies", displayName |-> "Costco"],
    [patterns |-> <<"kroger">>, category |-> "Office Supplies", displayName |-> "Kroger"],
    [patterns |-> <<"safeway">>, category |-> "Office Supplies", displayName |-> "Safeway"],
    [patterns |-> <<"publix">>, category |-> "Office Supplies", displayName |-> "Publix"],
    [patterns |-> <<"whole foods", "wholefoods">>, category |-> "Office Supplies", displayName |-> "Whole Foods"],
    [patterns |-> <<"trader joe", "trader joe's">>, category |-> "Office Supplies", displayName |-> "Trader Joe's"],
    [patterns |-> <<"cvs", "cvs pharmacy">>, category |-> "Office Supplies", displayName |-> "CVS"],
    [patterns |-> <<"walgreens">>, category |-> "Office Supplies", displayName |-> "Walgreens"],
    [patterns |-> <<"rite aid">>, category |-> "Office Supplies", displayName |-> "Rite Aid"],
    [patterns |-> <<"dollar general">>, category |-> "Office Supplies", displayName |-> "Dollar General"],
    [patterns |-> <<"dollar tree">>, category |-> "Office Supplies", displayName |-> "Dollar Tree"],
    [patterns |-> <<"family dollar">>, category |-> "Office Supplies", displayName |-> "Family Dollar"],
    [patterns |-> <<"starbucks", "sbux">>, category |-> "Meals (Business)", displayName |-> "Starbucks"],
    [patterns |-> <<"mcdonalds", "mcdonald's", "mcd", "mc donalds">>, category |-> "Meals (Business)", displayName |-> "McDonald's"],
    [patterns |-> <<"burger king", "bk">>, category |-> "Meals (Business)", displayName |-> "Burger King"],
    [patterns |-> <<"wendys", "wendy's">>, category |-> "Meals (Business)", displayName |-> "Wendy's"],
    [patterns |-> <<"subway">>, category |-> "Meals (Business)", displayName |-> "Subway"],
    [patterns |-> <<"chipotle">>, category |-> "Meals (Business)", displayName |-> "Chipotle"],
    [patterns |-> <<"taco bell">>, category |-> "Meals (Business)", displayName |-> "Taco Bell"],
    [patterns |-> <<"kfc", "kentucky fried">>, category |-> "Meals (Business)", displayName |-> "KFC"],
    [patterns |-> <<"pizza hut">>, category |-> "Meals (Business)", displayName |-> "Pizza Hut"],
    [patterns |-> <<"dominos", "domino's">>, category |-> "Meals (Business)", displayName |-> "Domino's"],
    [patterns |-> <<"papa john", "papa john's">>, category |-> "Meals (Business)", displayName |-> "Papa John's"],
    [patterns |-> <<"panera", "panera bread">>, category |-> "Meals (Business)", displayName |-> "Panera Bread"],
    [patterns |-> <<"dunkin", "dunkin donuts">>, category |-> "Meals (Business)", displayName |-> "Dunkin"],
    [patterns |-> <<"chick-fil-a", "chick fil a", "chickfila">>, category |-> "Meals (Business)", displayName |-> "Chick-fil-A"],
    [patterns |-> <<"popeyes">>, category |-> "Meals (Business)", displayName |-> "Popeyes"],
    [patterns |-> <<"five guys">>, category |-> "Meals (Business)", displayName |-> "Five Guys"],
    [patterns |-> <<"shake shack">>, category |-> "Meals (Business)", displayName |-> "Shake Shack"],
    [patterns |-> <<"in-n-out", "in n out">>, category |-> "Meals (Business)", displayName |-> "In-N-Out"],
    [patterns |-> <<"uber eats", "ubereats">>, category |-> "Meals (Business)", displayName |-> "Uber Eats"],
    [patterns |-> <<"doordash", "door dash">>, category |-> "Meals (Business)", displayName |-> "DoorDash"],
    [patterns |-> <<"grubhub">>, category |-> "Meals (Business)", displayName |-> "Grubhub"],
    [patterns |-> <<"deliveroo">>, category |-> "Meals (Business)", displayName |-> "Deliveroo"],
    [patterns |-> <<"just eat", "justeat">>, category |-> "Meals (Business)", displayName |-> "Just Eat"],
    [patterns |-> <<"lieferando">>, category |-> "Meals (Business)", displayName |-> "Lieferando"],
    [patterns |-> <<"shell">>, category |-> "Travel", displayName |-> "Shell"],
    [patterns |-> <<"chevron">>, category |-> "Travel", displayName |-> "Chevron"],
    [patterns |-> <<"exxon", "exxonmobil">>, category |-> "Travel", displayName |-> "ExxonMobil"],
    [patterns |-> <<"mobil">>, category |-> "Travel", displayName |-> "Mobil"],
    [patterns |-> <<"bp", "british petroleum">>, category |-> "Travel", displayName |-> "BP"],
    [patterns |-> <<"esso">>, category |-> "Travel", displayName |-> "Esso"],
    [patterns |-> <<"total", "totalenergies">>, category |-> "Travel", displayName |-> "TotalEnergies"],
    [patterns |-> <<"aral">>, category |-> "Travel", displayName |-> "Aral"],
    [patterns |-> <<"eni", "agip">>, category |-> "Travel", displayName |-> "Eni"],
    [patterns |-> <<"omv">>, category |-> "Travel", displayName |-> "OMV"],
    [patterns |-> <<"mol">>, category |-> "Travel", displayName |-> "MOL"],
    [patterns |-> <<"petrol">>, category |-> "Travel", displayName |-> "Petrol"],
    [patterns |-> <<"ina">>, category |-> "Travel", displayName |-> "INA"],
    [patterns |-> <<"lukoil">>, category |-> "Travel", displayName |-> "Lukoil"],
    [patterns |-> <<"repsol">>, category |-> "Travel", displayName |-> "Repsol"],
    [patterns |-> <<"cepsa">>, category |-> "Travel", displayName |-> "Cepsa"],
    [patterns |-> <<"galp">>, category |-> "Travel", displayName |-> "Galp"],
    [patterns |-> <<"q8", "kuwait petroleum">>, category |-> "Travel", displayName |-> "Q8"],
    [patterns |-> <<"arco">>, category |-> "Travel", displayName |-> "ARCO"],
    [patterns |-> <<"76", "seventy six">>, category |-> "Travel", displayName |-> "76"],
    [patterns |-> <<"speedway">>, category |-> "Travel", displayName |-> "Speedway"],
    [patterns |-> <<"circle k">>, category |-> "Travel", displayName |-> "Circle K"],
    [patterns |-> <<"wawa">>, category |-> "Travel", displayName |-> "Wawa"],
    [patterns |-> <<"sheetz">>, category |-> "Travel", displayName |-> "Sheetz"],
    [patterns |-> <<"racetrac">>, category |-> "Travel", displayName |-> "RaceTrac"],
    [patterns |-> <<"quiktrip", "qt">>, category |-> "Travel", displayName |-> "QuikTrip"],
    [patterns |-> <<"best buy", "bestbuy">>, category |-> "Equipment", displayName |-> "Best Buy"],
    [patterns |-> <<"apple store", "apple.com">>, category |-> "Equipment", displayName |-> "Apple"],
    [patterns |-> <<"media markt", "mediamarkt">>, category |-> "Equipment", displayName |-> "MediaMarkt"],
    [patterns |-> <<"saturn">>, category |-> "Equipment", displayName |-> "Saturn"],
    [patterns |-> <<"euronics">>, category |-> "Equipment", displayName |-> "Euronics"],
    [patterns |-> <<"expert">>, category |-> "Equipment", displayName |-> "Expert"],
    [patterns |-> <<"conrad">>, category |-> "Equipment", displayName |-> "Conrad"],
    [patterns |-> <<"currys", "pc world">>, category |-> "Equipment", displayName |-> "Currys"],
    [patterns |-> <<"staples">>, category |-> "Office Supplies", displayName |-> "Staples"],
    [patterns |-> <<"office depot", "officemax">>, category |-> "Office Supplies", displayName |-> "Office Depot"],
    [patterns |-> <<"amazon", "amzn", "amazon.com", "amazon.de", "amazon.co.uk">>, category |-> "Office Supplies", displayName |-> "Amazon"],
    [patterns |-> <<"home depot">>, category |-> "Equipment", displayName |-> "Home Depot"],
    [patterns |-> <<"lowes", "lowe's">>, category |-> "Equipment", displayName |-> "Lowe's"],
    [patterns |-> <<"ikea">>, category |-> "Equipment", displayName |-> "IKEA"],
    [patterns |-> <<"hornbach">>, category |-> "Equipment", displayName |-> "Hornbach"],
    [patterns |-> <<"obi">>, category |-> "Equipment", displayName |-> "OBI"],
    [patterns |-> <<"bauhaus">>, category |-> "Equipment", displayName |-> "Bauhaus"],
    [patterns |-> <<"leroy merlin">>, category |-> "Equipment", displayName |-> "Leroy Merlin"],
    [patterns |-> <<"adobe", "creative cloud">>, category |-> "Software / SaaS", displayName |-> "Adobe"],
    [patterns |-> <<"microsoft", "msft", "office 365", "microsoft 365">>, category |-> "Software / SaaS", displayName |-> "Microsoft"],
    [patterns |-> <<"google", "google cloud", "google workspace">>, category |-> "Software / SaaS", displayName |-> "Google"],
    [patterns |-> <<"apple", "icloud", "apple one">>, category |-> "Software / SaaS", displayName |-> "Apple"],
    [patterns |-> <<"dropbox">>, category |-> "Software / SaaS", displayName |-> "Dropbox"],
    [patterns |-> <<"slack">>, category |-> "Software / SaaS", displayName |-> "Slack"],
    [patterns |-> <<"zoom">>, category |-> "Software / SaaS", displayName |-> "Zoom"],
    [patterns |-> <<"notion">>, category |-> "Software / SaaS", displayName |-> "Notion"],
    [patterns |-> <<"figma">>, category |-> "Software / SaaS", displayName |-> "Figma"],
    [patterns |-> <<"canva">>, category |-> "Software / SaaS", displayName |-> "Canva"],
    [patterns |-> <<"github">>, category |-> "Software / SaaS", displayName |-> "GitHub"],
    [patterns |-> <<"atlassian", "jira", "confluence">>, category |-> "Software / SaaS", displayName |-> "Atlassian"],
    [patterns |-> <<"salesforce">>, category |-> "Software / SaaS", displayName |-> "Salesforce"],
    [patterns |-> <<"hubspot">>, category |-> "Software / SaaS", displayName |-> "HubSpot"],
    [patterns |-> <<"mailchimp">>, category |-> "Software / SaaS", displayName |-> "Mailchimp"],
    [patterns |-> <<"quickbooks", "intuit">>, category |-> "Software / SaaS", displayName |-> "QuickBooks"],
    [patterns |-> <<"xero">>, category |-> "Software / SaaS", displayName |-> "Xero"],
    [patterns |-> <<"freshbooks">>, category |-> "Software / SaaS", displayName |-> "FreshBooks"],
    [patterns |-> <<"shopify">>, category |-> "Software / SaaS", displayName |-> "Shopify"],
    [patterns |-> <<"squarespace">>, category |-> "Software / SaaS", displayName |-> "Squarespace"],
    [patterns |-> <<"wix">>, category |-> "Software / SaaS", displayName |-> "Wix"],
    [patterns |-> <<"godaddy">>, category |-> "Software / SaaS", displayName |-> "GoDaddy"],
    [patterns |-> <<"namecheap">>, category |-> "Software / SaaS", displayName |-> "Namecheap"],
    [patterns |-> <<"cloudflare">>, category |-> "Software / SaaS", displayName |-> "Cloudflare"],
    [patterns |-> <<"aws", "amazon web services">>, category |-> "Software / SaaS", displayName |-> "AWS"],
    [patterns |-> <<"digitalocean">>, category |-> "Software / SaaS", displayName |-> "DigitalOcean"],
    [patterns |-> <<"heroku">>, category |-> "Software / SaaS", displayName |-> "Heroku"],
    [patterns |-> <<"vercel">>, category |-> "Software / SaaS", displayName |-> "Vercel"],
    [patterns |-> <<"netlify">>, category |-> "Software / SaaS", displayName |-> "Netlify"],
    [patterns |-> <<"verizon", "vzw">>, category |-> "Phone / Internet", displayName |-> "Verizon"],
    [patterns |-> <<"at&t", "att">>, category |-> "Phone / Internet", displayName |-> "AT&T"],
    [patterns |-> <<"t-mobile", "tmobile">>, category |-> "Phone / Internet", displayName |-> "T-Mobile"],
    [patterns |-> <<"sprint">>, category |-> "Phone / Internet", displayName |-> "Sprint"],
    [patterns |-> <<"comcast", "xfinity">>, category |-> "Phone / Internet", displayName |-> "Comcast/Xfinity"],
    [patterns |-> <<"spectrum">>, category |-> "Phone / Internet", displayName |-> "Spectrum"],
    [patterns |-> <<"vodafone">>, category |-> "Phone / Internet", displayName |-> "Vodafone"],
    [patterns |-> <<"orange">>, category |-> "Phone / Internet", displayName |-> "Orange"],
    [patterns |-> <<"telekom", "deutsche telekom", "dt">>, category |-> "Phone / Internet", displayName |-> "Telekom"],
    [patterns |-> <<"o2">>, category |-> "Phone / Internet", displayName |-> "O2"],
    [patterns |-> <<"ee">>, category |-> "Phone / Internet", displayName |-> "EE"],
    [patterns |-> <<"three", "3 mobile">>, category |-> "Phone / Internet", displayName |-> "Three"],
    [patterns |-> <<"tim", "telecom italia">>, category |-> "Phone / Internet", displayName |-> "TIM"],
    [patterns |-> <<"wind", "wind tre">>, category |-> "Phone / Internet", displayName |-> "Wind Tre"],
    [patterns |-> <<"iliad">>, category |-> "Phone / Internet", displayName |-> "Iliad"],
    [patterns |-> <<"swisscom">>, category |-> "Phone / Internet", displayName |-> "Swisscom"],
    [patterns |-> <<"sunrise">>, category |-> "Phone / Internet", displayName |-> "Sunrise"],
    [patterns |-> <<"salt">>, category |-> "Phone / Internet", displayName |-> "Salt"],
    [patterns |-> <<"kpn">>, category |-> "Phone / Internet", displayName |-> "KPN"],
    [patterns |-> <<"proximus">>, category |-> "Phone / Internet", displayName |-> "Proximus"],
    [patterns |-> <<"telenet">>, category |-> "Phone / Internet", displayName |-> "Telenet"],
    [patterns |-> <<"movistar">>, category |-> "Phone / Internet", displayName |-> "Movistar"],
    [patterns |-> <<"meo">>, category |-> "Phone / Internet", displayName |-> "MEO"],
    [patterns |-> <<"nos">>, category |-> "Phone / Internet", displayName |-> "NOS"],
    [patterns |-> <<"uber", "uber trip", "uber ride">>, category |-> "Travel", displayName |-> "Uber"],
    [patterns |-> <<"lyft">>, category |-> "Travel", displayName |-> "Lyft"],
    [patterns |-> <<"bolt", "bolt ride">>, category |-> "Travel", displayName |-> "Bolt"],
    [patterns |-> <<"grab">>, category |-> "Travel", displayName |-> "Grab"],
    [patterns |-> <<"freenow", "free now", "mytaxi">>, category |-> "Travel", displayName |-> "FREE NOW"],
    [patterns |-> <<"airbnb">>, category |-> "Travel", displayName |-> "Airbnb"],
    [patterns |-> <<"booking.com", "booking">>, category |-> "Travel", displayName |-> "Booking.com"],
    [patterns |-> <<"expedia">>, category |-> "Travel", displayName |-> "Expedia"],
    [patterns |-> <<"hotels.com">>, category |-> "Travel", displayName |-> "Hotels.com"],
    [patterns |-> <<"kayak">>, category |-> "Travel", displayName |-> "Kayak"],
    [patterns |-> <<"tripadvisor">>, category |-> "Travel", displayName |-> "TripAdvisor"],
    [patterns |-> <<"delta", "delta air">>, category |-> "Travel", displayName |-> "Delta Airlines"],
    [patterns |-> <<"united", "united air">>, category |-> "Travel", displayName |-> "United Airlines"],
    [patterns |-> <<"american air", "american airlines", "aa">>, category |-> "Travel", displayName |-> "American Airlines"],
    [patterns |-> <<"southwest", "swa">>, category |-> "Travel", displayName |-> "Southwest"],
    [patterns |-> <<"jetblue">>, category |-> "Travel", displayName |-> "JetBlue"],
    [patterns |-> <<"lufthansa", "lh">>, category |-> "Travel", displayName |-> "Lufthansa"],
    [patterns |-> <<"british airways", "ba">>, category |-> "Travel", displayName |-> "British Airways"],
    [patterns |-> <<"air france", "af">>, category |-> "Travel", displayName |-> "Air France"],
    [patterns |-> <<"klm">>, category |-> "Travel", displayName |-> "KLM"],
    [patterns |-> <<"ryanair">>, category |-> "Travel", displayName |-> "Ryanair"],
    [patterns |-> <<"easyjet">>, category |-> "Travel", displayName |-> "easyJet"],
    [patterns |-> <<"wizzair", "wizz air">>, category |-> "Travel", displayName |-> "Wizz Air"],
    [patterns |-> <<"vueling">>, category |-> "Travel", displayName |-> "Vueling"],
    [patterns |-> <<"eurowings">>, category |-> "Travel", displayName |-> "Eurowings"],
    [patterns |-> <<"hilton">>, category |-> "Travel", displayName |-> "Hilton"],
    [patterns |-> <<"marriott">>, category |-> "Travel", displayName |-> "Marriott"],
    [patterns |-> <<"hyatt">>, category |-> "Travel", displayName |-> "Hyatt"],
    [patterns |-> <<"ihg", "intercontinental">>, category |-> "Travel", displayName |-> "IHG"],
    [patterns |-> <<"accor", "novotel", "ibis", "mercure">>, category |-> "Travel", displayName |-> "Accor"],
    [patterns |-> <<"hertz">>, category |-> "Travel", displayName |-> "Hertz"],
    [patterns |-> <<"avis">>, category |-> "Travel", displayName |-> "Avis"],
    [patterns |-> <<"enterprise">>, category |-> "Travel", displayName |-> "Enterprise"],
    [patterns |-> <<"sixt">>, category |-> "Travel", displayName |-> "Sixt"],
    [patterns |-> <<"europcar">>, category |-> "Travel", displayName |-> "Europcar"],
    [patterns |-> <<"usps", "us postal", "postal service">>, category |-> "Shipping / Delivery", displayName |-> "USPS"],
    [patterns |-> <<"fedex", "federal express">>, category |-> "Shipping / Delivery", displayName |-> "FedEx"],
    [patterns |-> <<"ups", "united parcel">>, category |-> "Shipping / Delivery", displayName |-> "UPS"],
    [patterns |-> <<"dhl">>, category |-> "Shipping / Delivery", displayName |-> "DHL"],
    [patterns |-> <<"dpd">>, category |-> "Shipping / Delivery", displayName |-> "DPD"],
    [patterns |-> <<"gls">>, category |-> "Shipping / Delivery", displayName |-> "GLS"],
    [patterns |-> <<"hermes">>, category |-> "Shipping / Delivery", displayName |-> "Hermes"],
    [patterns |-> <<"royal mail">>, category |-> "Shipping / Delivery", displayName |-> "Royal Mail"],
    [patterns |-> <<"la poste">>, category |-> "Shipping / Delivery", displayName |-> "La Poste"],
    [patterns |-> <<"deutsche post">>, category |-> "Shipping / Delivery", displayName |-> "Deutsche Post"],
    [patterns |-> <<"poste italiane">>, category |-> "Shipping / Delivery", displayName |-> "Poste Italiane"],
    [patterns |-> <<"correos">>, category |-> "Shipping / Delivery", displayName |-> "Correos"],
    [patterns |-> <<"postnl">>, category |-> "Shipping / Delivery", displayName |-> "PostNL"],
    [patterns |-> <<"bpost">>, category |-> "Shipping / Delivery", displayName |-> "bpost"],
    [patterns |-> <<"paypal">>, category |-> "Bank Fees", displayName |-> "PayPal"],
    [patterns |-> <<"stripe">>, category |-> "Bank Fees", displayName |-> "Stripe"],
    [patterns |-> <<"square">>, category |-> "Bank Fees", displayName |-> "Square"],
    [patterns |-> <<"wise", "transferwise">>, category |-> "Bank Fees", displayName |-> "Wise"],
    [patterns |-> <<"revolut">>, category |-> "Bank Fees", displayName |-> "Revolut"],
    [patterns |-> <<"n26">>, category |-> "Bank Fees", displayName |-> "N26"],
    [patterns |-> <<"monzo">>, category |-> "Bank Fees", displayName |-> "Monzo"],
    [patterns |-> <<"chase", "jpmorgan">>, category |-> "Bank Fees", displayName |-> "Chase"],
    [patterns |-> <<"bank of america", "bofa">>, category |-> "Bank Fees", displayName |-> "Bank of America"],
    [patterns |-> <<"wells fargo">>, category |-> "Bank Fees", displayName |-> "Wells Fargo"],
    [patterns |-> <<"citi", "citibank">>, category |-> "Bank Fees", displayName |-> "Citibank"],
    [patterns |-> <<"barclays">>, category |-> "Bank Fees", displayName |-> "Barclays"],
    [patterns |-> <<"hsbc">>, category |-> "Bank Fees", displayName |-> "HSBC"],
    [patterns |-> <<"santander">>, category |-> "Bank Fees", displayName |-> "Santander"],
    [patterns |-> <<"ing">>, category |-> "Bank Fees", displayName |-> "ING"],
    [patterns |-> <<"deutsche bank">>, category |-> "Bank Fees", displayName |-> "Deutsche Bank"],
    [patterns |-> <<"commerzbank">>, category |-> "Bank Fees", displayName |-> "Commerzbank"],
    [patterns |-> <<"ubs">>, category |-> "Bank Fees", displayName |-> "UBS"],
    [patterns |-> <<"credit suisse">>, category |-> "Bank Fees", displayName |-> "Credit Suisse"],
    [patterns |-> <<"bnp paribas", "bnp">>, category |-> "Bank Fees", displayName |-> "BNP Paribas"],
    [patterns |-> <<"societe generale">>, category |-> "Bank Fees", displayName |-> "Société Générale"],
    [patterns |-> <<"unicredit">>, category |-> "Bank Fees", displayName |-> "UniCredit"],
    [patterns |-> <<"intesa">>, category |-> "Bank Fees", displayName |-> "Intesa Sanpaolo"]
  >>

\* unnamed/part_000 lines 409-480: CATEGORY_KEYWORDS, in declaration (Object.entries) order
CATEGORY_KEYWORDS_V3 ==
  <<
    [category |-> "Meals (Business)", keywords |-> <<
      "restaurant", "cafe", "coffee", "food", "diner", "grill", "bistro", "kitchen",
      "pizzeria", "bakery", "deli", "bar", "pub", "tavern", "ristorante", "trattoria",
      "osteria", "pasticceria", "gelateria", "gasthaus", "gaststätte", "bäckerei",
      "konditorei", "metzgerei", "imbiss", "brasserie", "boulangerie", "patisserie",
      "creperie", "restorant", "kafe", "piceri", "byrek", "restauracja", "kawiarnia",
      "piekarnia"
    >>],
    [category |-> "Travel", keywords |-> <<
      "gas", "fuel", "petroleum", "petrol", "diesel", "benzin", "tankstelle", "airline",
      "flight", "airport", "flughafen", "aeroporto", "aeroport", "hotel", "motel", "hostel",
      "inn", "lodge", "rental car", "car hire", "autovermietung", "parking", "toll", "maut",
      "pedaggio", "taxi", "cab", "rideshare", "train", "railway", "bahn", "sncf", "trenitalia",
      "bus", "coach", "flixbus"
    >>],
    [category |-> "Office Supplies", keywords |-> <<
      "office", "supplies", "paper", "ink", "toner", "stationery", "bürobedarf",
      "büromaterial", "papier", "cancelleria", "cartoleria", "fournitures", "papeterie"
    >>],
    [category |-> "Equipment", keywords |-> <<
      "computer", "laptop", "notebook", "tablet", "phone", "monitor", "display", "screen",
      "printer", "scanner", "drucker", "electronics", "elektronik", "elettronica", "hardware",
      "device", "gerät", "camera", "kamera"
    >>],
    [category |-> "Software / SaaS", keywords |-> <<
      "software", "subscription", "cloud", "saas", "app", "license", "lizenz", "licenza",
      "hosting", "domain", "server", "abonnement", "abbonamento"
    >>],
    [category |-> "Shipping / Delivery", keywords |-> <<
      "shipping", "postage", "courier", "freight", "delivery", "versand", "porto", "paket",
      "spedizione", "posta", "livraison", "envoi", "colis"
    >>],
    [category |-> "Phone / Internet", keywords |-> <<
      "mobile", "cellular", "wireless", "telefon", "handy", "internet", "broadband", "wifi",
      "fiber", "telecom", "telco"
    >>],
    [category |-> "Utilities", keywords |-> <<
      "electric", "electricity", "strom", "elettricità", "gas", "heating", "heizung", "water",
      "wasser", "acqua", "eau", "utility", "utilities"
    >>],
    [category |-> "Professional Services", keywords |-> <<
      "legal", "attorney", "lawyer", "rechtsanwalt", "avvocato", "accounting", "accountant",
      "cpa", "steuerberater", "commercialista", "consulting", "consultant", "beratung"
    >>],
    [category |-> "Insurance", keywords |-> <<
      "insurance", "versicherung", "assicurazione", "assurance", "policy", "premium", "coverage"
    >>],
    [category |-> "Advertising / Marketing", keywords |-> <<
      "advertising", "ads", "ad spend", "werbung", "pubblicità", "marketing", "promotion",
      "campaign", "social media", "facebook ads", "google ads"
    >>]
  >>
(***************************************************************************)
(* Bounds and inputs                                                       *)
(***************************************************************************)
\* record calls in one run
MaxCalls == 2

\* the cap of the learned-merchant collection: merchants.slice(0, 500)
MaxLearned == 500

\* merchant names the user records; two of them are equal after normalisation
Names == {"Joe's Diner", "  JOE'S DINER ", "Starbucks"}

Categories == {"Custom Food", "Travel"}

Digits == <<"0", "1", "2", "3", "4", "5", "6", "7", "8", "9">>

RECURSIVE IntToString(_)
IntToString(n) ==
  IF n < 10 THEN Digits[n + 1]
  ELSE IntToString(n \div 10) \o Digits[(n % 10) + 1]

\* The collection after n distinct merchants "shop 1" .. "shop n" were recorded
\* at time 0 and "shop 1" was recorded once more: what n + 1 record calls on an
\* empty store leave behind (n <= MaxLearned).
Prefilled(n) ==
  [i \in 1..n |->
     [name |-> "shop " \o IntToString(i), category |-> "Other",
      timesUsed |-> IF i = 1 THEN 2 ELSE 1, lastUsed |-> 0]]

(***************************************************************************)
(* Learning store                                                          *)
(***************************************************************************)
\* getLearnedMerchants: the parsed array, [] when there is no item or the read throws
getLearnedMerchants(item, faults) ==
  IF "getItem" \in faults THEN <<>>
  ELSE IF IsSome(item) THEN Value(item) ELSE <<>>

\* the least index of a set of indices, 0 when the set is empty: where a loop
\* that returns at its first hit stops
First(indices) ==
  IF indices = {} THEN 0
  ELSE CHOOSE i \in indices : \A j \in indices : i <= j

\* merchants.find(m => m.name.toLowerCase() === normalized): the index of the
\* first such entry, 0 when there is none
FindExisting(merchants, normalized) ==
  First({i \in DOMAIN merchants : ToLowerCase(merchants[i].name) = normalized})

\* Mutant of UpdateOrPush: the existing entry is not looked up, every call pushes
UpdateOrPushAlwaysPush(merchants, name, category, now) ==
  Append(merchants,
         [name |-> Trim(ToLowerCase(name)), category |-> category,
          timesUsed |-> 1, lastUsed |-> now])

\* Mutant of UpdateOrPush: the name is lowercased but not trimmed
UpdateOrPushUntrimmed(merchants, name, category, now) ==
  LET normalized == ToLowerCase(name)
      existing == FindExisting(merchants, normalized)
  IN IF existing # 0
       THEN [merchants EXCEPT ![existing] =
               [@ EXCEPT !.category = category,
                         !.timesUsed = @ + 1,
                         !.lastUsed = now]]
       ELSE Append(merchants,
                   [name |-> normalized, category |-> category,
                    timesUsed |-> 1, lastUsed |-> now])

\* the if/else of saveLearnedMerchant: update the existing entry or push a new one
UpdateOrPush(merchants, name, category, now) ==
  LET normalized == Trim(ToLowerCase(name))
      existing == FindExisting(merchants, normalized)
  IN IF existing # 0
       THEN [merchants EXCEPT ![existing] =
               [@ EXCEPT !.category = category,
                         !.timesUsed = @ + 1,
                         !.lastUsed = now]]
       ELSE Append(merchants,
                   [name |-> normalized, category |-> category,
                    timesUsed |-> 1, lastUsed |-> now])

RECURSIVE Buckets(_, _, _)
Buckets(merchants, k, lowest) ==
  IF k < lowest THEN <<>>
  ELSE SelectSeq(merchants, LAMBDA m : m.timesUsed = k)
         \o Buckets(merchants, k - 1, lowest)

SortDescending(merchants) ==
  IF merchants = <<>> THEN <<>>
  ELSE LET used == {merchants[i].timesUsed : i \in DOMAIN merchants}
           highest == CHOOSE k \in used : \A j \in used : j <= k
           lowest == CHOOSE k \in used : \A j \in used : k <= j
       IN Buckets(merchants, highest, lowest)

RECURSIVE BucketsUp(_, _, _)
BucketsUp(merchants, k, highest) ==
  IF k > highest THEN <<>>
  ELSE SelectSeq(merchants, LAMBDA m : m.timesUsed = k)
         \o BucketsUp(merchants, k + 1, highest)

\* Mutant of SortByTimesUsed: the comparator reversed, a.timesUsed - b.timesUsed
SortByTimesUsedAscending(merchants) ==
  IF merchants = <<>> THEN <<>>
  ELSE LET used == {merchants[i].timesUsed : i \in DOMAIN merchants}
           highest == CHOOSE k \in used : \A j \in used : j <= k
           lowest == CHOOSE k \in used : \A j \in used : k <= j
       IN BucketsUp(merchants, lowest, highest)

\* merchants.sort((a, b) => b.timesUsed - a.timesUsed): Array.prototype.sort is
\* stable (ES2019), so entries of equal timesUsed keep their order
SortByTimesUsed(merchants) == SortDescending(merchants)

\* Mutant of Truncate: the cap off by one
TruncateOffByOne(merchants) == Slice(merchants, 0, MaxLearned + 1)

\* merchants.slice(0, 500)
Truncate(merchants) == Slice(merchants, 0, MaxLearned)

\* saveLearnedMerchant: the item left in storage and whether the call threw
saveLearnedMerchant(item, name, category, now, faults) ==
  LET merchants == getLearnedMerchants(item, faults)
      trimmed == Truncate(SortByTimesUsed(UpdateOrPush(merchants, name, category, now)))
  IN [item |-> IF "setItem" \in faults THEN item ELSE Some(trimmed),
      threw |-> FALSE]

\* clearLearnedMerchants: V1 and V2 wrap removeItem in try/catch, V3 does not
clearLearnedMerchants(v, item, faults) ==
  [item |-> IF "removeItem" \in faults THEN item ELSE None,
   threw |-> v = "V3" /\ "removeItem" \in faults]

(***************************************************************************)
(* Category classifier                                                     *)
(***************************************************************************)
BUILT_IN_MERCHANTS(v) ==
  CASE v = "V1" -> BUILT_IN_MERCHANTS_V1
    [] v = "V2" -> BUILT_IN_MERCHANTS_V2
    [] v = "V3" -> BUILT_IN_MERCHANTS_V3

CATEGORY_KEYWORDS(v) ==
  CASE v = "V1" -> CATEGORY_KEYWORDS_V1
    [] v = "V2" -> CATEGORY_KEYWORDS_V2
    [] v = "V3" -> CATEGORY_KEYWORDS_V3

\* the condition under which a learned entry decides: V3 also accepts an entry
\* whose name contains the merchant name
LearnedMatches(v, learned, textLower, merchantLower) ==
  IF v = "V3"
    THEN \/ Includes(merchantLower, learned.name)
         \/ Includes(learned.name, merchantLower)
         \/ Includes(textLower, learned.name)
    ELSE \/ Includes(merchantLower, learned.name)
         \/ Includes(textLower, learned.name)

\* for (const learned of learnedMerchants): the first entry that matches, 0 if none
FirstLearned(v, learnedMerchants, textLower, merchantLower) ==
  First({i \in DOMAIN learnedMerchants :
           LearnedMatches(v, learnedMerchants[i], textLower, merchantLower)})

\* for (const pattern of merchant.patterns): some pattern of the rule matches
RuleMatches(merchant, textLower, merchantLower) ==
  \E k \in DOMAIN merchant.patterns :
    \/ Includes(textLower, merchant.patterns[k])
    \/ Includes(merchantLower, merchant.patterns[k])

\* for (const merchant of BUILT_IN_MERCHANTS): the first rule that matches, 0 if none
FirstRule(table, textLower, merchantLower) ==
  First({i \in DOMAIN table : RuleMatches(table[i], textLower, merchantLower)})

\* for (const [category, keywords] of Object.entries(CATEGORY_KEYWORDS)): the
\* first category with a keyword in the text, 0 if none
FirstKeyword(table, textLower) ==
  First({i \in DOMAIN table :
           \E k \in DOMAIN table[i].keywords : Includes(textLower, table[i].keywords[k])})

(***************************************************************************)
(* Lines, character classes and the patterns of the merchant extractors    *)
(***************************************************************************)
AsciiLetters ==
  DOMAIN UpperToLower \cup {UpperToLower[c] : c \in DOMAIN UpperToLower}

DigitChars == {"0", "1", "2", "3", "4", "5", "6", "7", "8", "9"}

\* [a-zA-Zäöüßàèéìòùñçăîâșț] over the characters of the Latin-1 range
ExtendedLetters ==
  AsciiLetters \cup {"ä", "ö", "ü", "ß", "à", "è", "é", "ì", "ò", "ù", "ñ", "ç", "î", "â"}

\* \w
WordChars == AsciiLetters \cup DigitChars \cup {"_"}

\* s[i], the empty string outside the string
CharAt(s, i) == IF 1 <= i /\ i <= Len(s) THEN SubSeq(s, i, i) ELSE ""

\* text.split('\n')
RECURSIVE SplitLines(_)
SplitLines(s) ==
  LET nl == First({i \in 1..Len(s) : CharAt(s, i) = "\n"})
  IN IF nl = 0 THEN <<s>>
     ELSE <<SubSeq(s, 1, nl - 1)>> \o SplitLines(SubSeq(s, nl + 1, Len(s)))

\* lines.join('\n')
RECURSIVE JoinLines(_)
JoinLines(lines) ==
  IF Len(lines) = 0 THEN ""
  ELSE IF Len(lines) = 1 THEN lines[1]
  ELSE lines[1] \o "\n" \o JoinLines(Tail(lines))

\* (s.match(/[class]/g) || []).length
CountChars(s, class) == Cardinality({i \in 1..Len(s) : CharAt(s, i) \in class})

\* s.replace(/[^class]/g, '')
RECURSIVE KeepChars(_, _)
KeepChars(s, class) ==
  IF Len(s) = 0 THEN ""
  ELSE IF Len(s) = 1 THEN (IF s \in class THEN s ELSE "")
  ELSE KeepChars(SubSeq(s, 1, Len(s) \div 2), class)
         \o KeepChars(SubSeq(s, Len(s) \div 2 + 1, Len(s)), class)

\* String.prototype.startsWith, and a pattern anchored with ^
StartsWith(s, p) == Len(p) <= Len(s) /\ SubSeq(s, 1, Len(p)) = p

StartsWithAny(s, prefixes) == \E p \in prefixes : StartsWith(s, p)

\* the length of the run of digits of s that starts at index from
DigitRun(s, from) ==
  LET stop == First({i \in from..Len(s) : CharAt(s, i) \notin DigitChars})
  IN IF from > Len(s) THEN 0
     ELSE IF stop = 0 THEN Len(s) - from + 1
     ELSE stop - from

\* /^\d+[\/\-\.]\d+[\/\-\.]\d+/
LooksLikeDate(s) ==
  LET n1 == DigitRun(s, 1)
      n2 == DigitRun(s, n1 + 2)
  IN /\ n1 >= 1
     /\ CharAt(s, n1 + 1) \in {"/", "-", "."}
     /\ n2 >= 1
     /\ CharAt(s, n1 + n2 + 2) \in {"/", "-", "."}
     /\ DigitRun(s, n1 + n2 + 3) >= 1

\* /^\d{2}:\d{2}/
LooksLikeTime(s) ==
  /\ Len(s) >= 5
  /\ CharAt(s, 1) \in DigitChars /\ CharAt(s, 2) \in DigitChars
  /\ CharAt(s, 3) = ":"
  /\ CharAt(s, 4) \in DigitChars /\ CharAt(s, 5) \in DigitChars

\* /^[class]+$/
AllIn(s, class) == Len(s) >= 1 /\ \A i \in 1..Len(s) : CharAt(s, i) \in class

\* lines of a text that are not blank
NonBlank(lines) == SelectSeq(lines, LAMBDA l : Len(Trim(l)) > 0)

TrimAll(lines) == [i \in DOMAIN lines |-> Trim(lines[i])]

(***************************************************************************)
(* Merchant extraction                                                     *)
(***************************************************************************)
\* services/nativeOCR.ts extractMerchant: the skip patterns; an alternative
\* outside a group is not anchored
SkipLine_native(cleaned) ==
  LET lower == ToLowerCase(cleaned)
  IN \/ StartsWithAny(lower, {"receipt", "invoice", "bill", "ticket", "bon", "factura",
                              "rechnung", "ricevuta", "fatura"})
     \/ LooksLikeDate(cleaned)
     \/ LooksLikeTime(cleaned)
     \/ StartsWith(lower, "tel")
     \/ \E w \in {"phone", "fax", "www.", "http"} : Includes(lower, w)
     \/ StartsWith(lower, "address")
     \/ \E w \in {"adresse", "indirizzo", "adresa"} : Includes(lower, w)

\* services/nativeOCR.ts extractMerchant: a line that is returned
Candidate_native(line) ==
  LET cleaned == Trim(line)
  IN /\ ~SkipLine_native(cleaned)
     /\ Len(cleaned) >= 2 /\ Len(cleaned) <= 50
     /\ 10 * CountChars(cleaned, AsciiLetters) >= 3 * Len(cleaned)

\* services/nativeOCR.ts extractMerchant(topRegion)
extractMerchant_native(topRegion) ==
  LET lines == Slice(NonBlank(SplitLines(topRegion.text)), 0, 5)
      hit == First({i \in DOMAIN lines : Candidate_native(lines[i])})
  IN IF hit = 0 THEN None ELSE Some(Trim(lines[hit]))

\* services/offlineOCR.ts extractMerchantName: line.replace(/[^a-zA-Z\s]/g, '').trim()
CleanLine(line) == Trim(KeepChars(line, AsciiLetters \cup WhiteSpace))

Candidate_V1(line) ==
  LET cleanLine == CleanLine(line)
  IN /\ Len(cleanLine) >= 3 /\ Len(cleanLine) < 50
     /\ ~StartsWithAny(ToLowerCase(cleanLine),
                       {"receipt", "date", "time", "order", "item", "qty", "price",
                        "total", "tax", "cash", "card", "change", "thank"})

\* services/offlineOCR.ts extractMerchantName(text)
extractMerchantName(text) ==
  LET lines == Slice(NonBlank(TrimAll(SplitLines(text))), 0, 5)
      hit == First({i \in DOMAIN lines : Candidate_V1(lines[i])})
  IN IF hit = 0 THEN None ELSE Some(CleanLine(lines[hit]))

\* part_000 extractMerchant: the skip patterns
SkipLine_V3(cleaned) ==
  LET lower == ToLowerCase(cleaned)
  IN \/ StartsWithAny(lower, {"receipt", "invoice", "bill", "ticket", "bon", "factura",
                              "rechnung", "ricevuta", "fatura", "kassenbon"})
     \/ LooksLikeDate(cleaned)
     \/ LooksLikeTime(cleaned)
     \/ StartsWithAny(lower, {"tel", "phone", "fax", "www.", "http", "email"})
     \/ StartsWithAny(lower, {"address", "adresse", "indirizzo", "adresa", "straße",
                              "str.", "via"})
     \/ StartsWithAny(lower, {"thank", "danke", "grazie", "merci", "gracias"})
     \/ AllIn(cleaned, DigitChars)
     \/ AllIn(cleaned, {"#", "*", "-", "="})

Candidate_V3(line) ==
  LET cleaned == Trim(line)
  IN /\ ~SkipLine_V3(cleaned)
     /\ Len(cleaned) >= 2 /\ Len(cleaned) <= 50
     /\ 10 * CountChars(cleaned, ExtendedLetters) >= 4 * Len(cleaned)

\* part_000 extractMerchant(text, lines): the display name of the first rule
\* with a pattern in the line, else the line without its special characters
extractMerchant_V3(text) ==
  LET lines == Slice(NonBlank(TrimAll(SplitLines(text))), 0, 7)
      hit == First({i \in DOMAIN lines : Candidate_V3(lines[i])})
      cleaned == Trim(lines[hit])
      rule == FirstRule(BUILT_IN_MERCHANTS_V3, ToLowerCase(cleaned), ToLowerCase(cleaned))
  IN IF hit = 0 THEN None
     ELSE IF rule # 0 THEN Some(BUILT_IN_MERCHANTS_V3[rule].displayName)
     ELSE Some(Trim(KeepChars(cleaned, WordChars \cup WhiteSpace \cup {"&", "'", ".", "-"})))

(***************************************************************************)
(* OCR results and regions (services/nativeOCR.ts)                         *)
(***************************************************************************)
\* Positions are in thousandths of the image height and confidences in whole
\* percent: a block's confidence c stands for c / 100.
Line(text, confidence, y0, y1) ==
  [text |-> text, confidence |-> confidence, bbox |-> [y0 |-> y0, y1 |-> y1]]

\* result.data of worker.recognize, on images 1000 pixels high: a clear
\* receipt, one with a faint header, and one without line data
TesseractPages ==
  { [text |-> "STARBUCKS STORE 0421\nLatte 4.50\nTOTAL 4.50", confidence |-> 85,
     height |-> 1000,
     lines |-> << Line("STARBUCKS STORE 0421", 90, 20, 60),
                  Line("Latte 4.50", 80, 400, 440),
                  Line("TOTAL 4.50", 85, 900, 940) >>],
    [text |-> "Joe's Diner\n04/01/2025\nTOTAL 11.00", confidence |-> 62,
     height |-> 1000,
     lines |-> << Line("Joe's Diner", 40, 20, 60),
                  Line("04/01/2025", 70, 80, 120),
                  Line("TOTAL 11.00", 76, 900, 940) >>],
    [text |-> "Zum Hirsch\n7.00", confidence |-> 70, height |-> 1000, lines |-> <<>>] }

Region(text, confidence) == [text |-> text, confidence |-> confidence, blocks |-> <<>>]

\* results of the native plugin's recognizeTextWithRegions: a header read at
\* exactly 60, one read at 59, and a top region that holds no merchant line
NativeResults ==
  { [text |-> "Joe's Diner\nTOTAL 11.00", confidence |-> 75,
     regions |-> [top |-> Region("Joe's Diner", 60), middle |-> Region("", 0),
                  bottom |-> Region("TOTAL 11.00", 90)]],
    [text |-> "Zum Hirsch\nSumme 7.00", confidence |-> 66,
     regions |-> [top |-> Region("Zum Hirsch", 59), middle |-> Region("", 0),
                  bottom |-> Region("Summe 7.00", 73)]],
    [text |-> "RECEIPT\n12/03/2024\nTOTAL 3.00", confidence |-> 95,
     regions |-> [top |-> Region("RECEIPT\n12/03/2024", 95), middle |-> Region("", 0),
                  bottom |-> Region("TOTAL 3.00", 95)]] }

\* runTesseractOCR: the conversion of result.data into an OCRResult
Blocks(data) ==
  [i \in DOMAIN data.lines |->
     [text |-> data.lines[i].text,
      confidence |-> data.lines[i].confidence,
      bounds |-> [y |-> (data.lines[i].bbox.y0 * 1000) \div data.height,
                  height |-> ((data.lines[i].bbox.y1 - data.lines[i].bbox.y0) * 1000)
                               \div data.height]]]

OCRResult(data) ==
  [text |-> data.text, confidence |-> data.confidence, blocks |-> Blocks(data),
   blockCount |-> Len(data.lines)]

\* const centerY = block.bounds.y + block.bounds.height / 2, doubled
TwiceCenterY(block) == 2 * block.bounds.y + block.bounds.height

InTop(block) == TwiceCenterY(block) < 400
InBottom(block) == ~InTop(block) /\ TwiceCenterY(block) > 1400
InMiddle(block) == ~InTop(block) /\ ~InBottom(block)

RECURSIVE SumConfidence(_)
SumConfidence(blocks) ==
  IF Len(blocks) = 0 THEN 0 ELSE blocks[1].confidence + SumConfidence(Tail(blocks))

\* calcRegionConfidence: the mean confidence in percent (whole percents)
calcRegionConfidence(blocks) ==
  IF Len(blocks) = 0 THEN 0 ELSE SumConfidence(blocks) \div Len(blocks)

RegionOf(blocks) ==
  [text |-> JoinLines([i \in DOMAIN blocks |-> blocks[i].text]),
   confidence |-> calcRegionConfidence(blocks),
   blocks |-> blocks]

\* Mutant of simulateRegions: a block whose centre is exactly at a boundary goes
\* to the outer region (centerY <= 0.2, centerY >= 0.7)
simulateRegionsInclusive(ocrResult) ==
  LET Top(block) == TwiceCenterY(block) <= 400
      Bottom(block) == ~Top(block) /\ TwiceCenterY(block) >= 1400
      Middle(block) == ~Top(block) /\ ~Bottom(block)
  IN [text |-> ocrResult.text,
      confidence |-> ocrResult.confidence,
      regions |-> [top |-> RegionOf(SelectSeq(ocrResult.blocks, Top)),
                   middle |-> RegionOf(SelectSeq(ocrResult.blocks, Middle)),
                   bottom |-> RegionOf(SelectSeq(ocrResult.blocks, Bottom))]]

\* simulateRegions(ocrResult)
simulateRegions(ocrResult) ==
  [text |-> ocrResult.text,
   confidence |-> ocrResult.confidence,
   regions |-> [top |-> RegionOf(SelectSeq(ocrResult.blocks, InTop)),
                middle |-> RegionOf(SelectSeq(ocrResult.blocks, InMiddle)),
                bottom |-> RegionOf(SelectSeq(ocrResult.blocks, InBottom))]]

\* the merchant confidence threshold of scanReceipt
MerchantThreshold == 60

\* Mutant of GateMerchant: the merchant is kept whatever the confidence
GateMerchantNever(merchantName, merchantConfidence) == merchantName

\* const finalMerchant = merchantConfidence >= 60 ? merchantName : null
GateMerchant(merchantName, merchantConfidence) ==
  IF merchantConfidence >= MerchantThreshold THEN merchantName ELSE None

\* scanReceipt: the result built from an OCR result
ParsedReceiptData(ocrResult, usedNative) ==
  LET merchantName == extractMerchant_native(ocrResult.regions.top)
      merchantConfidence == ocrResult.regions.top.confidence
  IN [merchantName |-> GateMerchant(merchantName, merchantConfidence),
      merchantConfidence |-> merchantConfidence,
      rawText |-> ocrResult.text,
      overallConfidence |-> ocrResult.confidence,
      usedNativeOCR |-> usedNative]

(***************************************************************************)
(* Scans: results                                                          *)
(***************************************************************************)
\* the text and merchant name that each pipeline hands to suggestCategory
ReceiptOf_V1(data) == [text |-> data.text, merchantName |-> extractMerchantName(data.text)]

ReceiptOf_V2(nativeResult) ==
  [text |-> nativeResult.rawText, merchantName |-> nativeResult.merchantName]

ReceiptOf_V3(data) == [text |-> data.text, merchantName |-> extractMerchant_V3(data.text)]

\* what runRegionOCR can return: the plugin's result or the simulated regions
RegionResults == NativeResults \cup {simulateRegions(OCRResult(d)) : d \in TesseractPages}

\* The scans' pure stages read only their input: their outcome for each input
Simulated == [d \in TesseractPages |-> simulateRegions(OCRResult(d))]

Parsed ==
  [r \in RegionResults |-> [u \in BOOLEAN |-> ParsedReceiptData(r, u)]]

Receipt_V1 == [d \in TesseractPages |-> ReceiptOf_V1(d)]

Receipt_V3 == [d \in TesseractPages |-> ReceiptOf_V3(d)]

\* the receipts the three pipelines hand to suggestCategory for these inputs
PipelineReceipts ==
  { [text |-> "STARBUCKS STORE 0421\nLatte 4.50\nTOTAL 4.50", merchantName |-> Some("Starbucks")],
    [text |-> "STARBUCKS STORE 0421\nLatte 4.50\nTOTAL 4.50", merchantName |-> Some("STARBUCKS STORE 0421")],
    [text |-> "STARBUCKS STORE 0421\nLatte 4.50\nTOTAL 4.50", merchantName |-> Some("STARBUCKS STORE")],
    [text |-> "Joe's Diner\n04/01/2025\nTOTAL 11.00", merchantName |-> None],
    [text |-> "Joe's Diner\n04/01/2025\nTOTAL 11.00", merchantName |-> Some("Joe's Diner")],
    [text |-> "Joe's Diner\n04/01/2025\nTOTAL 11.00", merchantName |-> Some("Joes Diner")],
    [text |-> "Zum Hirsch\n7.00", merchantName |-> None],
    [text |-> "Zum Hirsch\n7.00", merchantName |-> Some("Zum Hirsch")],
    [text |-> "Joe's Diner\nTOTAL 11.00", merchantName |-> Some("Joe's Diner")],
    [text |-> "Zum Hirsch\nSumme 7.00", merchantName |-> None],
    [text |-> "RECEIPT\n12/03/2024\nTOTAL 3.00", merchantName |-> None] }

\* OCR text and extracted merchant name handed to the classifier
Receipts ==
  { [text |-> "Joe's Diner\n11.00", merchantName |-> Some("Joe's Diner")],
    [text |-> "STARBUCKS STORE 0421\nLatte 4.50", merchantName |-> Some("Starbucks")],
    [text |-> "Zum Hirsch\n7.00", merchantName |-> None] }

\* const textLower = text.toLowerCase()
TextLower(receipt) == ToLowerCase(receipt.text)

\* const merchantLower = (merchantName || '').toLowerCase()
MerchantLower(receipt) ==
  ToLowerCase(IF IsSome(receipt.merchantName) THEN Value(receipt.merchantName) ELSE "")

\* the receipts whose built-in and keyword stages are tabulated
StageInputs == Receipts \cup PipelineReceipts

\* The built-in and keyword stages read only the static tables: their outcome for
\* each version and receipt (the index of the first hit, 0 for none)
BuiltInStage ==
  [v \in Versions |->
     [r \in StageInputs |->
        FirstRule(BUILT_IN_MERCHANTS(v), TextLower(r), MerchantLower(r))]]

KeywordStage ==
  [v \in Versions |->
     [r \in StageInputs |-> FirstKeyword(CATEGORY_KEYWORDS(v), TextLower(r))]]

\* the built-in stage on a receipt: looked up, or computed for any other receipt
FirstBuiltIn(v, receipt) ==
  IF receipt \in StageInputs
    THEN BuiltInStage[v][receipt]
    ELSE FirstRule(BUILT_IN_MERCHANTS(v), TextLower(receipt), MerchantLower(receipt))

\* the keyword stage on a receipt
FirstCategory(v, receipt) ==
  IF receipt \in StageInputs
    THEN KeywordStage[v][receipt]
    ELSE FirstKeyword(CATEGORY_KEYWORDS(v), TextLower(receipt))

\* Mutant of suggestCategory: the built-in table is consulted before the learned entries
suggestCategoryBuiltInFirst(v, receipt, learnedMerchants) ==
  LET learned == FirstLearned(v, learnedMerchants, TextLower(receipt), MerchantLower(receipt))
      merchant == FirstBuiltIn(v, receipt)
      keyword == FirstCategory(v, receipt)
  IN IF merchant # 0
       THEN [category |-> Some(BUILT_IN_MERCHANTS(v)[merchant].category), confidence |-> "high"]
     ELSE IF learned # 0
       THEN [category |-> Some(learnedMerchants[learned].category), confidence |-> "high"]
     ELSE IF keyword # 0
       THEN [category |-> Some(CATEGORY_KEYWORDS(v)[keyword].category), confidence |-> "medium"]
     ELSE [category |-> None, confidence |-> "low"]

\* suggestCategory(text, merchantName) on a receipt, with the learned merchants it read
suggestCategory(v, receipt, learnedMerchants) ==
  LET learned == FirstLearned(v, learnedMerchants, TextLower(receipt), MerchantLower(receipt))
      merchant == FirstBuiltIn(v, receipt)
      keyword == FirstCategory(v, receipt)
  IN IF learned # 0
       THEN [category |-> Some(learnedMerchants[learned].category), confidence |-> "high"]
     ELSE IF merchant # 0
       THEN [category |-> Some(BUILT_IN_MERCHANTS(v)[merchant].category), confidence |-> "high"]
     ELSE IF keyword # 0
       THEN [category |-> Some(CATEGORY_KEYWORDS(v)[keyword].category), confidence |-> "medium"]
     ELSE [category |-> None, confidence |-> "low"]

(***************************************************************************)
(* Scans: state                                                            *)
(***************************************************************************)
\* scans that are started in one run, each by its own call
NScans == 2

Scans == 1..NScans

\* a scan before its call: where it stands (pc), whether onProgress was passed,
\* the percentages passed to onProgress so far, scanReceipt's usedNative, what
\* became of the native call and of the bundled engine, the worker it recognizes
\* with, the OCR result, scanReceipt's result, the final result, and the error
\* it rejected with
IdleScan ==
  [pc |-> "idle", callback |-> FALSE, progress |-> <<>>, usedNative |-> FALSE,
   native |-> "none", bundled |-> "none", worker |-> 0, ocr |-> None,
   parsed |-> None, result |-> None, error |-> ""]

\* let tesseractWorker = null; let workerReady = false (part_000);
\* let workerInitializing = false; let workerInitPromise = null (offlineOCR.ts).
\* A worker is named by its number in workers, 0 is null; the promise of an
\* initialization is named by the worker it creates.
NoEngine ==
  [tesseractWorker |-> 0, workerReady |-> FALSE, workerInitializing |-> FALSE,
   workerInitPromise |-> 0]

\* no scan was started and no worker created
ScansIdle ==
  /\ version = "V1"
  /\ nativePlugin = FALSE
  /\ engine = NoEngine
  /\ workers = <<>>
  /\ scans = [p \in Scans |-> IdleScan]

\* onProgress?.(percent, status) for each of percents in turn: the calls that
\* can throw (0: none does), and the percentages passed when call k throws
Throws(s, percents) == IF s.callback THEN 0..Len(percents) ELSE {0}

onProgress(s, percents, k) ==
  IF ~s.callback THEN s.progress
  ELSE s.progress \o (IF k = 0 THEN percents ELSE SubSeq(percents, 1, k))

\* the scan rejects
Rejected(s, error) == [s EXCEPT !.pc = "failed", !.error = error]

\* the scan after its calls of onProgress: rejected if one threw, else next
AfterProgress(s, percents, k, next) ==
  IF k # 0
    THEN Rejected([s EXCEPT !.progress = onProgress(s, percents, k)], "onProgress")
    ELSE [next EXCEPT !.progress = onProgress(s, percents, k)]

(***************************************************************************)
(* Calls on the learning store and the classifier                          *)
(***************************************************************************)
NoResult == [category |-> None, confidence |-> "none"]

NoCall ==
  [op |-> "none", version |-> "", name |-> "", category |-> "", text |-> "",
   merchantName |-> None, faults |-> {}, threw |-> FALSE, result |-> NoResult]

\* saveLearnedMerchant(name, category); the three versions are the same code
Record(name, category, faults) ==
  LET r == saveLearnedMerchant(stored, name, category, clock + 1, faults)
  IN /\ clock < MaxCalls
     /\ clock' = clock + 1
     /\ stored' = r.item
     /\ last' = [NoCall EXCEPT !.op = "record", !.name = name, !.category = category,
                               !.faults = faults, !.threw = r.threw]
     /\ UNCHANGED scanVars

\* clearLearnedMerchants() of version v
Clear(v, faults) ==
  LET r == clearLearnedMerchants(v, stored, faults)
  IN /\ stored' = r.item
     /\ last' = [NoCall EXCEPT !.op = "clear", !.version = v,
                               !.faults = faults, !.threw = r.threw]
     /\ UNCHANGED <<clock, scanVars>>

\* suggestCategory(text, merchantName) of version v
Suggest(v, receipt, faults) ==
  /\ last' = [NoCall EXCEPT !.op = "suggest", !.version = v, !.text = receipt.text,
                            !.merchantName = receipt.merchantName, !.faults = faults,
                            !.result = suggestCategory(v, receipt, getLearnedMerchants(stored, faults))]
  /\ UNCHANGED <<stored, clock, scanVars>>

RecordCall ==
  \E name \in Names, category \in Categories, faults \in SUBSET {"getItem", "setItem"} :
    Record(name, category, faults)

ClearCall ==
  \E v \in Versions, faults \in SUBSET {"removeItem"} : Clear(v, faults)

SuggestCall ==
  \E v \in Versions, receipt \in Receipts, faults \in SUBSET {"getItem"} :
    Suggest(v, receipt, faults)

\* The learning store alone, from an empty or a nearly full collection
InitStore ==
  /\ stored \in {None, Some(Prefilled(MaxLearned - 1))}
  /\ clock = 0
  /\ last = NoCall
  /\ ScansIdle

NextStore == RecordCall \/ ClearCall

SpecStore == InitStore /\ [][NextStore]_vars

\* The classifier over the learning store, from an empty collection
InitCategory ==
  /\ stored = None
  /\ clock = 0
  /\ last = NoCall
  /\ ScansIdle

NextCategory == RecordCall \/ ClearCall \/ SuggestCall

SpecCategory == InitCategory /\ [][NextCategory]_vars

\* offlineOCR.ts processReceiptImage: the returned fields that are modelled
ExtractedReceiptData_V1(data, learnedMerchants) ==
  LET receipt == Receipt_V1[data]
      suggestion == suggestCategory("V1", receipt, learnedMerchants)
  IN [merchantName |-> receipt.merchantName,
      suggestedCategory |-> suggestion.category,
      categoryConfidence |-> suggestion.confidence,
      rawText |-> data.text,
      confidence |-> data.confidence]

\* part_001 processReceiptImage, from scanReceipt's result
ExtractedReceiptData_V2(nativeResult, learnedMerchants) ==
  LET receipt == ReceiptOf_V2(nativeResult)
      suggestion == suggestCategory("V2", receipt, learnedMerchants)
  IN [merchantName |-> nativeResult.merchantName,
      suggestedCategory |-> suggestion.category,
      categoryConfidence |-> suggestion.confidence,
      rawText |-> nativeResult.rawText,
      confidence |-> nativeResult.overallConfidence,
      usedNativeOCR |-> nativeResult.usedNativeOCR]

\* part_000 processReceiptImage
ExtractedReceiptData_V3(data, learnedMerchants) ==
  LET receipt == Receipt_V3[data]
      suggestion == suggestCategory("V3", receipt, learnedMerchants)
  IN [merchantName |-> receipt.merchantName,
      suggestedCategory |-> suggestion.category,
      categoryConfidence |-> suggestion.confidence,
      rawText |-> data.text,
      confidence |-> data.confidence,
      usedNativeOCR |-> FALSE]

(***************************************************************************)
(* Scans: steps, one per stretch of code between two awaits                *)
(***************************************************************************)
\* scanReceipt up to its first await: usedNative, onProgress(10), and the call
\* of the native plugin or, without it, of runTesseractOCR
scanReceiptBegin(s, k) ==
  LET s1 == [s EXCEPT !.usedNative = nativePlugin]
  IN AfterProgress(s1, <<10>>, k,
       IF nativePlugin
         THEN [s1 EXCEPT !.pc = "native", !.native = "called"]
         ELSE [s1 EXCEPT !.pc = "import", !.bundled = "invoked"])

\* Mutant of scanReceiptEnd: 'Finalizing...' is reported before 'Extracting data...'
scanReceiptEndOutOfOrder(s, ocrResult, k) ==
  AfterProgress(s, <<90, 60, 100>>, k,
    [s EXCEPT !.pc = "classify",
              !.ocr = Some(ocrResult),
              !.parsed = Some(Parsed[ocrResult][s.usedNative])])

\* scanReceipt from the return of runRegionOCR to its own return
scanReceiptEnd(s, ocrResult, k) ==
  AfterProgress(s, <<60, 90, 100>>, k,
    [s EXCEPT !.pc = "classify",
              !.ocr = Some(ocrResult),
              !.parsed = Some(Parsed[ocrResult][s.usedNative])])

\* Mutant of getWorker_V1: the initialization in flight is not looked at
getWorkerUnshared ==
  IF engine.tesseractWorker # 0
    THEN [worker |-> engine.tesseractWorker, engine |-> engine, workers |-> workers]
  ELSE [worker |-> Len(workers) + 1,
        engine |-> [engine EXCEPT !.workerInitializing = TRUE,
                                  !.workerInitPromise = Len(workers) + 1],
        workers |-> Append(workers, "creating")]

\* offlineOCR.ts getWorker up to its return: the worker or promise returned and
\* the module state left
getWorker_V1 ==
  IF engine.tesseractWorker # 0
    THEN [worker |-> engine.tesseractWorker, engine |-> engine, workers |-> workers]
  ELSE IF engine.workerInitializing /\ engine.workerInitPromise # 0
    THEN [worker |-> engine.workerInitPromise, engine |-> engine, workers |-> workers]
  ELSE [worker |-> Len(workers) + 1,
        engine |-> [engine EXCEPT !.workerInitializing = TRUE,
                                  !.workerInitPromise = Len(workers) + 1],
        workers |-> Append(workers, "creating")]

\* processReceiptImage of offlineOCR.ts is called
StartV1(p) ==
  /\ version = "V1"
  /\ scans[p].pc = "idle"
  /\ \E k \in Throws(scans[p], <<5>>) :
       LET s == scans[p]
           got == getWorker_V1
       IN IF k # 0
            THEN /\ scans' = [scans EXCEPT ![p] = AfterProgress(s, <<5>>, k, s)]
                 /\ UNCHANGED <<engine, workers>>
            ELSE /\ scans' = [scans EXCEPT ![p] =
                       AfterProgress(s, <<5>>, k,
                         [s EXCEPT !.pc = "worker", !.worker = got.worker,
                                   !.bundled = "invoked"])]
                 /\ engine' = got.engine
                 /\ workers' = got.workers
  /\ UNCHANGED <<version, nativePlugin, storeVars>>

\* processReceiptImage of part_001 is called
StartV2(p, blob) ==
  /\ version = "V2"
  /\ scans[p].pc = "idle"
  /\ LET s == scans[p]
     IN IF blob
          THEN scans' = [scans EXCEPT ![p] = [s EXCEPT !.pc = "reading"]]
          ELSE \E k \in Throws(s, <<10>>) :
                 scans' = [scans EXCEPT ![p] = scanReceiptBegin(s, k)]
  /\ UNCHANGED <<engine, workers, version, nativePlugin, storeVars>>

\* processReceiptImage of part_000 is called
StartV3(p, blob) ==
  /\ version = "V3"
  /\ scans[p].pc = "idle"
  /\ LET s == scans[p]
     IN IF blob
          THEN \E k \in Throws(s, <<5>>) :
                 scans' = [scans EXCEPT ![p] =
                   AfterProgress(s, <<5>>, k, [s EXCEPT !.pc = "reading"])]
          ELSE \E k \in Throws(s, <<5, 10>>) :
                 scans' = [scans EXCEPT ![p] =
                   AfterProgress(s, <<5, 10>>, k, [s EXCEPT !.pc = "preprocessing"])]
  /\ UNCHANGED <<engine, workers, version, nativePlugin, storeVars>>

\* the FileReader of blobToDataUrl (part_001) or of processReceiptImage
\* (part_000) loads the image or fails
ReadDone(p, ok) ==
  /\ scans[p].pc = "reading"
  /\ LET s == scans[p]
     IN IF ~ok
          THEN scans' = [scans EXCEPT ![p] = Rejected(s, "read")]
        ELSE IF version = "V2"
          THEN \E k \in Throws(s, <<10>>) :
                 scans' = [scans EXCEPT ![p] = scanReceiptBegin(s, k)]
          ELSE \E k \in Throws(s, <<10>>) :
                 scans' = [scans EXCEPT ![p] =
                   AfterProgress(s, <<10>>, k, [s EXCEPT !.pc = "preprocessing"])]
  /\ UNCHANGED <<engine, workers, version, nativePlugin, storeVars>>

\* preprocessReceiptImage resolves (it never rejects); then onProgress(20),
\* getWorker up to its first await or its return, and with a ready worker
\* onProgress(30) and the call of recognize
PreprocessDone(p) ==
  /\ version = "V3"
  /\ scans[p].pc = "preprocessing"
  /\ LET s == scans[p]
         called == [s EXCEPT !.bundled = "invoked"]
     IN IF engine.tesseractWorker # 0 /\ engine.workerReady
          THEN /\ \E k \in Throws(s, <<20, 30>>) :
                    scans' = [scans EXCEPT ![p] =
                      AfterProgress(IF k = 1 THEN s ELSE called, <<20, 30>>, k,
                        [called EXCEPT !.pc = "recognizing",
                                       !.worker = engine.tesseractWorker])]
               /\ UNCHANGED workers
          ELSE \E k \in Throws(s, <<20>>) :
                 IF k # 0
                   THEN /\ scans' = [scans EXCEPT ![p] = AfterProgress(s, <<20>>, k, s)]
                        /\ UNCHANGED workers
                   ELSE /\ scans' = [scans EXCEPT ![p] =
                              AfterProgress(s, <<20>>, k,
                                [called EXCEPT !.pc = "creating",
                                               !.worker = Len(workers) + 1])]
                        /\ workers' = Append(workers, "creating")
  /\ UNCHANGED <<engine, version, nativePlugin, storeVars>>

\* nativePlugin.recognizeTextWithRegions resolves
NativeReturn(p, ocrResult) ==
  /\ version = "V2"
  /\ scans[p].pc = "native"
  /\ \E k \in Throws(scans[p], <<60, 90, 100>>) :
       scans' = [scans EXCEPT ![p] =
         scanReceiptEnd([scans[p] EXCEPT !.native = "returned"], ocrResult, k)]
  /\ UNCHANGED <<engine, workers, version, nativePlugin, storeVars>>

\* nativePlugin.recognizeTextWithRegions rejects: runRegionOCR catches and
\* calls runTesseractOCR
NativeThrow(p) ==
  /\ version = "V2"
  /\ scans[p].pc = "native"
  /\ scans' = [scans EXCEPT ![p] =
       [scans[p] EXCEPT !.native = "threw", !.pc = "import", !.bundled = "invoked"]]
  /\ UNCHANGED <<engine, workers, version, nativePlugin, storeVars>>

\* await import('tesseract.js') settles; then if (!tesseractWorker) the call
\* of createWorker, else the call of recognize
ImportDone(p, ok) ==
  /\ version = "V2"
  /\ scans[p].pc = "import"
  /\ LET s == scans[p]
     IN IF ~ok
          THEN /\ scans' = [scans EXCEPT ![p] =
                    Rejected([s EXCEPT !.bundled = "failed"], "import")]
               /\ UNCHANGED workers
        ELSE IF engine.tesseractWorker = 0
          THEN /\ scans' = [scans EXCEPT ![p] =
                    [s EXCEPT !.pc = "creating", !.worker = Len(workers) + 1]]
               /\ workers' = Append(workers, "creating")
          ELSE /\ scans' = [scans EXCEPT ![p] =
                    [s EXCEPT !.pc = "recognizing", !.worker = engine.tesseractWorker]]
               /\ UNCHANGED workers
  /\ UNCHANGED <<engine, version, nativePlugin, storeVars>>

\* the scan's createWorker settles: tesseractWorker = await createWorker(...);
\* then the call of recognize (nativeOCR.ts) or of setParameters (part_000)
CreateDone(p, ok) ==
  /\ version \in {"V2", "V3"}
  /\ scans[p].pc = "creating"
  /\ LET s == scans[p]
         w == s.worker
     IN IF ~ok
          THEN /\ scans' = [scans EXCEPT ![p] =
                    Rejected([s EXCEPT !.bundled = "failed"], "createWorker")]
               /\ workers' = [workers EXCEPT ![w] = "rejected"]
               /\ UNCHANGED engine
        ELSE IF version = "V2"
          THEN /\ scans' = [scans EXCEPT ![p] = [s EXCEPT !.pc = "recognizing"]]
               /\ workers' = [workers EXCEPT ![w] = "ready"]
               /\ engine' = [engine EXCEPT !.tesseractWorker = w]
          ELSE /\ scans' = [scans EXCEPT ![p] = [s EXCEPT !.pc = "configuring"]]
               /\ workers' = [workers EXCEPT ![w] = "configuring"]
               /\ engine' = [engine EXCEPT !.tesseractWorker = w]
  /\ UNCHANGED <<version, nativePlugin, storeVars>>

\* part_000 getWorker: setParameters settles; then workerReady = true, return
\* tesseractWorker (the module variable as it is now), onProgress(30) and the
\* call of recognize
ConfigureDone(p, ok) ==
  /\ version = "V3"
  /\ scans[p].pc = "configuring"
  /\ LET s == scans[p]
         w == s.worker
     IN IF ~ok
          THEN /\ scans' = [scans EXCEPT ![p] =
                    Rejected([s EXCEPT !.bundled = "failed"], "setParameters")]
               /\ workers' = [workers EXCEPT ![w] = "unconfigured"]
               /\ UNCHANGED engine
          ELSE /\ \E k \in Throws(s, <<30>>) :
                    scans' = [scans EXCEPT ![p] =
                      AfterProgress(s, <<30>>, k,
                        [s EXCEPT !.pc = "recognizing",
                                  !.worker = engine.tesseractWorker])]
               /\ workers' = [workers EXCEPT ![w] = "ready"]
               /\ engine' = [engine EXCEPT !.workerReady = TRUE]
  /\ UNCHANGED <<version, nativePlugin, storeVars>>

\* offlineOCR.ts getWorker, the initialization it started: createWorker settles
InitCreateDone(w, ok) ==
  /\ version = "V1"
  /\ w \in DOMAIN workers
  /\ workers[w] = "creating"
  /\ workers' = [workers EXCEPT ![w] = IF ok THEN "configuring" ELSE "rejected"]
  /\ UNCHANGED <<engine, scans, version, nativePlugin, storeVars>>

\* offlineOCR.ts getWorker, the initialization it started: setParameters
\* settles; then tesseractWorker = worker, workerInitializing = false
InitConfigureDone(w, ok) ==
  /\ version = "V1"
  /\ w \in DOMAIN workers
  /\ workers[w] = "configuring"
  /\ IF ok
       THEN /\ workers' = [workers EXCEPT ![w] = "ready"]
            /\ engine' = [engine EXCEPT !.tesseractWorker = w,
                                        !.workerInitializing = FALSE]
       ELSE /\ workers' = [workers EXCEPT ![w] = "unconfigured"]
            /\ UNCHANGED engine
  /\ UNCHANGED <<scans, version, nativePlugin, storeVars>>

\* offlineOCR.ts processReceiptImage: await getWorker() settles, with the
\* worker (whatever terminateOCRWorker has done to it since) or with the
\* rejection of the initialization; then onProgress(15) and the call of recognize
GotWorker(p) ==
  /\ version = "V1"
  /\ scans[p].pc = "worker"
  /\ LET s == scans[p]
     IN \/ /\ workers[s.worker] \in {"ready", "terminating", "terminated"}
           /\ \E k \in Throws(s, <<15>>) :
                scans' = [scans EXCEPT ![p] =
                  AfterProgress(s, <<15>>, k, [s EXCEPT !.pc = "recognizing"])]
        \/ /\ workers[s.worker] \in {"rejected", "unconfigured"}
           /\ scans' = [scans EXCEPT ![p] =
                Rejected([s EXCEPT !.bundled = "failed"], "getWorker")]
  /\ UNCHANGED <<engine, workers, version, nativePlugin, storeVars>>

\* worker.recognize resolves with result.data; then the rest of the scan up to
\* its return (offlineOCR.ts, part_000) or up to the return of scanReceipt
RecognizeReturn(p, data) ==
  /\ scans[p].pc = "recognizing"
  /\ LET s == [scans[p] EXCEPT !.bundled = "returned"]
         learnedMerchants == getLearnedMerchants(stored, {})
     IN CASE version = "V1" ->
               \E k \in Throws(s, <<60, 80, 100>>) :
                 scans' = [scans EXCEPT ![p] =
                   AfterProgress(s, <<60, 80, 100>>, k,
                     [s EXCEPT !.pc = "done", !.ocr = Some(data),
                               !.result = Some(ExtractedReceiptData_V1(data, learnedMerchants))])]
          [] version = "V2" ->
               \E k \in Throws(s, <<60, 90, 100>>) :
                 scans' = [scans EXCEPT ![p] =
                   scanReceiptEnd(s, Simulated[data], k)]
          [] version = "V3" ->
               \E k \in Throws(s, <<70, 85, 100>>) :
                 scans' = [scans EXCEPT ![p] =
                   AfterProgress(s, <<70, 85, 100>>, k,
                     [s EXCEPT !.pc = "done", !.ocr = Some(data),
                               !.result = Some(ExtractedReceiptData_V3(data, learnedMerchants))])]
  /\ UNCHANGED <<engine, workers, version, nativePlugin, storeVars>>

\* worker.recognize rejects
RecognizeThrow(p) ==
  /\ scans[p].pc = "recognizing"
  /\ scans' = [scans EXCEPT ![p] =
       Rejected([scans[p] EXCEPT !.bundled = "failed"], "recognize")]
  /\ UNCHANGED <<engine, workers, version, nativePlugin, storeVars>>

\* a scan that learned the merchant it classified, as learnFromUserCorrection
\* does for the user: what the scans do not do
ClassifyAndLearn(p) ==
  LET result == ExtractedReceiptData_V2(Value(scans[p].parsed), getLearnedMerchants(stored, {}))
  IN /\ version = "V2"
     /\ scans[p].pc = "classify"
     /\ scans' = [scans EXCEPT ![p] = [scans[p] EXCEPT !.pc = "done", !.result = Some(result)]]
     /\ stored' = IF IsSome(result.merchantName) /\ IsSome(result.suggestedCategory)
                    THEN saveLearnedMerchant(stored, Value(result.merchantName),
                                             Value(result.suggestedCategory), clock, {}).item
                    ELSE stored
     /\ UNCHANGED <<engine, workers, version, nativePlugin, clock, last>>

\* part_001 processReceiptImage after await scanReceipt(...): suggestCategory
\* and the returned record
Classify(p) ==
  /\ version = "V2"
  /\ scans[p].pc = "classify"
  /\ scans' = [scans EXCEPT ![p] =
       [scans[p] EXCEPT !.pc = "done",
                        !.result = Some(ExtractedReceiptData_V2(
                                          Value(scans[p].parsed),
                                          getLearnedMerchants(stored, {})))]]
  /\ UNCHANGED <<engine, workers, version, nativePlugin, storeVars>>

\* the learned merchants in storage while the scans run
LearnedBefore ==
  <<[name |-> "joe's diner", category |-> "Custom Food", timesUsed |-> 1, lastUsed |-> 1]>>

\* Scans of one version of the pipeline, with or without the native plugin, by a
\* caller that passes onProgress to its scans or does not
InitScan ==
  /\ stored = Some(LearnedBefore)
  /\ clock = 0
  /\ last = NoCall
  /\ version \in Versions
  /\ nativePlugin \in (IF version = "V2" THEN BOOLEAN ELSE {FALSE})
  /\ engine = NoEngine
  /\ workers = <<>>
  /\ \E callback \in BOOLEAN :
       scans = [p \in Scans |-> [IdleScan EXCEPT !.callback = callback]]

NextScan ==
  \/ \E p \in Scans : StartV1(p)
  \/ \E p \in Scans, blob \in BOOLEAN : StartV2(p, blob)
  \/ \E p \in Scans, blob \in BOOLEAN : StartV3(p, blob)
  \/ \E p \in Scans, ok \in BOOLEAN : ReadDone(p, ok)
  \/ \E p \in Scans : PreprocessDone(p)
  \/ \E p \in Scans, ocrResult \in NativeResults : NativeReturn(p, ocrResult)
  \/ \E p \in Scans : NativeThrow(p)
  \/ \E p \in Scans, ok \in BOOLEAN : ImportDone(p, ok)
  \/ \E p \in Scans, ok \in BOOLEAN : CreateDone(p, ok)
  \/ \E p \in Scans, ok \in BOOLEAN : ConfigureDone(p, ok)
  \/ \E w \in DOMAIN workers, ok \in BOOLEAN : InitCreateDone(w, ok)
  \/ \E w \in DOMAIN workers, ok \in BOOLEAN : InitConfigureDone(w, ok)
  \/ \E p \in Scans : GotWorker(p)
  \/ \E p \in Scans, data \in TesseractPages : RecognizeReturn(p, data)
  \/ \E p \in Scans : RecognizeThrow(p)
  \/ \E p \in Scans : Classify(p)

SpecScan == InitScan /\ [][NextScan]_vars

(***************************************************************************)
(* Claims about the classifier and the learning store                      *)
(***************************************************************************)
Normalized(name) == Trim(ToLowerCase(name))

\* the entries the last call read from storage
EntriesRead == getLearnedMerchants(stored, last.faults)

\* C1: suggestCategory returns the category of the first matching learned entry
\* at confidence high; failing that the category of the first matching built-in
\* rule at high; failing that the first keyword-matched category at medium;
\* failing that null at low. The category is null exactly when the confidence
\* is low.
C1_PriorityChain ==
  last.op = "suggest" =>
    LET v == last.version
        learned == EntriesRead
        textLower == ToLowerCase(last.text)
        merchantLower ==
          ToLowerCase(IF IsSome(last.merchantName) THEN Value(last.merchantName) ELSE "")
        rules == BUILT_IN_MERCHANTS(v)
        keywords == CATEGORY_KEYWORDS(v)
        LearnedHit(i) == LearnedMatches(v, learned[i], textLower, merchantLower)
        RuleHit(i) ==
          \E k \in DOMAIN rules[i].patterns :
            \/ Includes(textLower, rules[i].patterns[k])
            \/ Includes(merchantLower, rules[i].patterns[k])
        KeywordHit(i) ==
          \E k \in DOMAIN keywords[i].keywords : Includes(textLower, keywords[i].keywords[k])
        anyLearned == \E i \in DOMAIN learned : LearnedHit(i)
        anyRule == \E i \in DOMAIN rules : RuleHit(i)
        anyKeyword == \E i \in DOMAIN keywords : KeywordHit(i)
        res == last.result
    IN /\ anyLearned =>
            /\ res.confidence = "high"
            /\ \E i \in DOMAIN learned :
                 /\ LearnedHit(i)
                 /\ \A j \in 1..(i - 1) : ~LearnedHit(j)
                 /\ res.category = Some(learned[i].category)
       /\ (~anyLearned /\ anyRule) =>
            /\ res.confidence = "high"
            /\ \E i \in DOMAIN rules :
                 /\ RuleHit(i)
                 /\ \A j \in 1..(i - 1) : ~RuleHit(j)
                 /\ res.category = Some(rules[i].category)
       /\ (~anyLearned /\ ~anyRule /\ anyKeyword) =>
            /\ res.confidence = "medium"
            /\ \E i \in DOMAIN keywords :
                 /\ KeywordHit(i)
                 /\ \A j \in 1..(i - 1) : ~KeywordHit(j)
                 /\ res.category = Some(keywords[i].category)
       /\ (~anyLearned /\ ~anyRule /\ ~anyKeyword) =>
            res = [category |-> None, confidence |-> "low"]
       /\ (res.category = None) <=> (res.confidence = "low")

\* C1 witness: a receipt that a built-in rule matches is classified by a learned
\* entry of another category
C1_Witness ==
  /\ last.op = "suggest"
  /\ last.text = "STARBUCKS STORE 0421\nLatte 4.50"
  /\ BuiltInStage[last.version][[text |-> last.text, merchantName |-> last.merchantName]] # 0
  /\ last.result = [category |-> Some("Custom Food"), confidence |-> "high"]

\* C2 (as claimed): after a record call whose storage operations succeed, for a
\* name whose normalized form had no entry, the persisted collection holds an
\* entry with that normalized name, the given category and timesUsed = 1, from
\* every prior store state, a store of 500 entries included.
C2_NewNameStored ==
  [][ ( /\ last'.op = "record"
        /\ last'.faults = {}
        /\ \A e \in Range(getLearnedMerchants(stored, {})) :
             e.name # Normalized(last'.name) )
      => /\ IsSome(stored')
         /\ \E e \in Range(Value(stored')) :
              /\ e.name = Normalized(last'.name)
              /\ e.category = last'.category
              /\ e.timesUsed = 1 ]_vars

NameCategoryUses(merchants) ==
  {<<merchants[i].name, merchants[i].category, merchants[i].timesUsed>> : i \in DOMAIN merchants}

\* C3: a record call (its storage operations succeeding) for a name whose
\* normalized form already has an entry overwrites that entry's category,
\* raises its timesUsed by exactly 1, and leaves the number of entries and every
\* other entry's name, category and timesUsed unchanged.
C3_UpdateExisting ==
  [][ ( /\ last'.op = "record"
        /\ last'.faults = {}
        /\ \E e \in Range(getLearnedMerchants(stored, {})) :
             e.name = Normalized(last'.name) )
      => LET old == Value(stored)
             new == Value(stored')
             e == CHOOSE x \in Range(old) : x.name = Normalized(last'.name)
         IN /\ Len(new) = Len(old)
            /\ NameCategoryUses(new) =
                 (NameCategoryUses(old) \ {<<e.name, e.category, e.timesUsed>>})
                   \cup {<<e.name, last'.category, e.timesUsed + 1>>} ]_vars

\* C3 witness: the last record call found its name stored and raised its count
C3_Witness ==
  /\ last.op = "record"
  /\ last.faults = {}
  /\ IsSome(stored)
  /\ \E e \in Range(Value(stored)) :
       /\ e.name = Normalized(last.name)
       /\ e.category = last.category
       /\ e.timesUsed = 2

\* C4: after any sequence of record and clear calls the persisted collection
\* holds at most 500 entries.
C4_AtMostCap ==
  IsSome(stored) => Len(Value(stored)) <= MaxLearned

\* C4 witness: a record call pushed a 501st entry and the collection was cut to 500
C4_Witness ==
  /\ last.op = "record"
  /\ last.faults = {}
  /\ IsSome(stored)
  /\ Len(Value(stored)) = MaxLearned
  /\ \A e \in Range(Value(stored)) : e.name # Normalized(last.name)

\* C5: whenever a save truncates the collection, no dropped entry has a higher
\* timesUsed than any kept entry; and a new name recorded into a collection of
\* 500 entries (the 501st distinct name since the store was empty) leaves
\* exactly 500 entries.
C5_LeastUsedEvicted ==
  [][ (last'.op = "record" /\ "setItem" \notin last'.faults)
      => LET before == getLearnedMerchants(stored, last'.faults)
             after == Value(stored')
             n == Normalized(last'.name)
             isNew == \A e \in Range(before) : e.name # n
             candidates ==
               {<<e.name, IF e.name = n THEN e.timesUsed + 1 ELSE e.timesUsed>> :
                  e \in Range(before)}
                 \cup (IF isNew THEN {<<n, 1>>} ELSE {})
             kept == {<<e.name, e.timesUsed>> : e \in Range(after)}
             dropped == candidates \ kept
         IN /\ kept \subseteq candidates
            /\ \A d \in dropped : \A k \in kept : d[2] <= k[2]
            /\ (isNew /\ Len(before) = MaxLearned) => Len(after) = MaxLearned ]_vars

\* C5 witness: a truncating save kept an entry used twice and dropped the new name
C5_Witness ==
  /\ last.op = "record"
  /\ "setItem" \notin last.faults
  /\ IsSome(stored)
  /\ Len(Value(stored)) = MaxLearned
  /\ Value(stored)[1].timesUsed = 2
  /\ \A e \in Range(Value(stored)) : e.name # Normalized(last.name)

\* C6 (as claimed): saveLearnedMerchant and clearLearnedMerchants never throw to
\* the caller when a storage operation throws, in every version.
C6_NeverThrows ==
  last.op \in {"record", "clear"} => ~last.threw

(***************************************************************************)
(* Claims about the scan pipeline                                          *)
(***************************************************************************)
\* the scans for which scanReceipt has returned its result
Returned == {p \in Scans : IsSome(scans[p].parsed)}

\* the top region scanReceipt read for scan p
TopRegion(p) == Value(scans[p].ocr).regions.top

C8_FailsOnlyWithBundled ==
  version = "V2" =>
    \A p \in Scans :
      LET s == scans[p]
      IN /\ s.native = "threw" => s.bundled # "none"
         /\ (IsSome(s.parsed) /\ s.native # "returned") =>
              /\ s.bundled = "returned"
              /\ \E data \in TesseractPages : s.ocr = Some(Simulated[data])
         /\ (s.pc = "failed" /\ s.error # "read") => s.bundled = "failed"
         /\ s.native = "returned" => s.bundled = "none"

\* the engine instances that were created and did not fail
Engines == {w \in DOMAIN workers : workers[w] \in {"creating", "configuring", "ready"}}

\* C9: across any interleaving of concurrent scans on the bundled engine, at
\* most one engine instance is created: no second createWorker is started
\* while one is in flight or has succeeded.
C9_SingleEngine ==
  Cardinality(Engines) <= 1

\* C10: within one scan, the percentages passed to onProgress are each in
\* 0..100 and never decrease, on the native path, on the fallback path and in
\* scans that end in failure.
C10_ProgressMonotone ==
  \A p \in Scans :
    LET progress == scans[p].progress
    IN /\ \A i \in DOMAIN progress : progress[i] \in 0..100
       /\ \A i \in DOMAIN progress : \A j \in DOMAIN progress :
            i <= j => progress[i] <= progress[j]

\* C10 witness: one scan went through all its milestones up to 100 and returned,
\* and another one was told of at least two milestones and then failed
C10_Witness ==
  \E p \in Scans : \E q \in Scans :
    /\ scans[p].pc = "done"
    /\ Len(scans[p].progress) >= 4
    /\ scans[p].progress[Len(scans[p].progress)] = 100
    /\ scans[q].pc = "failed"
    /\ Len(scans[q].progress) >= 2

(***************************************************************************)
(* Amounts: the amount patterns and the number parsers                     *)
(***************************************************************************)
\* Amounts are counted in thousandths: 4.50 is 4500. The texts that are
\* checked hold no number with more than three decimals.
RECURSIVE StringToInt(_)
StringToInt(digits) ==
  IF Len(digits) = 0 THEN 0
  ELSE 10 * StringToInt(SubSeq(digits, 1, Len(digits) - 1))
         + (CHOOSE d \in 0..9 : Digits[d + 1] = CharAt(digits, Len(digits)))

\* parseFloat(s) for a string of digits and separators: the number at its
\* start, up to a second '.' or another character; None is NaN
ParseFloat(s) ==
  LET Number(n, f, shown) ==
        IF n = 0 /\ f = 0 THEN None
        ELSE Some(1000 * StringToInt(SubSeq(s, 1, n))
                    + StringToInt(SubSeq(s, n + 2, n + 1 + shown) \o SubSeq("000", 1, 3 - shown)))
      Fraction(n, f) == Number(n, f, IF f < 3 THEN f ELSE 3)
      Whole(n) == Fraction(n, IF CharAt(s, n + 1) = "." THEN DigitRun(s, n + 2) ELSE 0)
  IN Whole(DigitRun(s, 1))

\* s.replace(/[class]/g, '')
DropChars(s, class) == KeepChars(s, {CharAt(s, i) : i \in 1..Len(s)} \ class)

\* s.replace(c, d): the first c only
ReplaceFirst(s, c, d) ==
  LET At(i) == IF i = 0 THEN s ELSE SubSeq(s, 1, i - 1) \o d \o SubSeq(s, i + 1, Len(s))
  IN At(First({j \in 1..Len(s) : CharAt(s, j) = c}))

\* s.lastIndexOf(c), counted from 1; 0 when c does not occur
LastIndexOf(s, c) ==
  IF \E j \in 1..Len(s) : CharAt(s, j) = c
    THEN CHOOSE j \in 1..Len(s) :
           CharAt(s, j) = c /\ \A k \in (j + 1)..Len(s) : CharAt(s, k) # c
    ELSE 0

\* (?:[seps]\d{3})* from index j, greedy: the index after the last group
RECURSIVE GroupsEnd(_, _, _)
GroupsEnd(s, j, seps) ==
  IF CharAt(s, j) \in seps /\ DigitRun(s, j + 1) >= 3
    THEN GroupsEnd(s, j + 4, seps)
    ELSE j

\* The amount patterns have the shape \d{1,lead}(?:[group]\d{3})*[decimal]\d{2},
\* the decimals optional or not, followed by nothing, by \b ("b") or by
\* (?:\s|$) ("s"). The index after the amount matched at index i of s, 0 when
\* none is matched there. Where the decimals are required the greedy choice is
\* the only one that can match: fewer leading digits or fewer groups leave a
\* digit where a separator, a boundary or a space is required.
AmountEnd(s, i, p) ==
  LET Followed(end) ==
        CASE p.tail = "" -> TRUE
          [] p.tail = "b" -> CharAt(s, end) \notin WordChars
          [] p.tail = "s" -> CharAt(s, end) \in WhiteSpace \cup {""}
      Ends(end, decimals) ==
        IF p.optional THEN end
        ELSE IF decimals /\ Followed(end) THEN end
        ELSE 0
      Decimals(k, decimals) == Ends(IF decimals THEN k + 3 ELSE k, decimals)
      Groups(k) == Decimals(k, CharAt(s, k) \in p.decimal /\ DigitRun(s, k + 1) >= 2)
      Lead(run) ==
        IF run = 0 THEN 0
        ELSE Groups(GroupsEnd(s, i + (IF run < p.lead THEN run ELSE p.lead), p.group))
  IN Lead(DigitRun(s, i))

\* the index after the run of characters of class that starts at index j
SkipClass(s, j, class) ==
  LET At(stop) == IF stop = 0 THEN (IF j > Len(s) THEN j ELSE Len(s) + 1) ELSE stop
  IN At(First({k \in j..Len(s) : CharAt(s, k) \notin class}))

\* [$€£¥] over the characters of the Latin-1 range
CurrencySigns == {"$", "£", "¥"}

\* One match of an amount pattern at index i of s: the amount is s[from..to-1]
\* and the search goes on at next; None when the pattern does not match at i.
\* Before the amount the pattern has nothing, \$\s? ("$"), [$€£¥]\s*
\* ("currency") or (?:total|...)[:\s]* ("keyword", ignoring case); after it
\* nothing or \s*[$€£¥] ("currency").
MatchAt(s, i, p) ==
  LET Keyword(found) ==
        IF found = {} THEN 0
        ELSE SkipClass(s, i + Len(CHOOSE k \in found : TRUE), WhiteSpace \cup {":"})
      from == CASE p.before = "" -> i
                [] p.before = "$" ->
                     IF CharAt(s, i) # "$" THEN 0
                     ELSE IF CharAt(s, i + 1) \in WhiteSpace THEN i + 2 ELSE i + 1
                [] p.before = "currency" ->
                     IF CharAt(s, i) \notin CurrencySigns THEN 0
                     ELSE SkipClass(s, i + 1, WhiteSpace)
                [] p.before = "keyword" ->
                     Keyword({k \in p.keywords :
                                /\ i + Len(k) - 1 <= Len(s)
                                /\ ToLowerCase(SubSeq(s, i, i + Len(k) - 1)) = k})
      Next(to, sign) ==
        CASE p.after = "currency" ->
               IF CharAt(s, sign) \in CurrencySigns THEN sign + 1 ELSE 0
          [] p.tail = "s" /\ CharAt(s, to) \in WhiteSpace -> to + 1
          [] OTHER -> to
      Match(start, to, next) ==
        IF to = 0 \/ next = 0 THEN None
        ELSE Some([from |-> start, to |-> to, next |-> next])
      Amount(start, to) == Match(start, to, Next(to, SkipClass(s, to, WhiteSpace)))
      Start(start) == Amount(start, IF start = 0 THEN 0 ELSE AmountEnd(s, start, p))
  IN Start(from)

\* the amounts that a global pattern matches in s from index i on, in order:
\* text.match(pattern), or the loop while ((match = pattern.exec(text)) !== null)
\* that starts with lastIndex = i - 1
RECURSIVE MatchAll(_, _, _)
MatchAll(s, i, p) ==
  LET Rest(m) ==
        <<SubSeq(s, Value(m).from, Value(m).to - 1)>> \o MatchAll(s, Value(m).next, p)
      At(j) == IF j = 0 THEN <<>> ELSE Rest(MatchAt(s, j, p))
  IN At(First({j \in i..Len(s) : MatchAt(s, j, p) # None}))

\* The separators of an amount token, normalized for parseFloat: with both '.'
\* and ',' the kind that occurs last is the decimal point; with ',' only, a
\* last part of two digits makes it decimal (part_000: only if there are
\* exactly two parts, twoParts).
NormalizeAmount(token, twoParts) ==
  LET WithSeparators(numStr, commas, dots, lastComma, lastDot) ==
        IF dots > 0 /\ commas > 0
          THEN IF lastComma > lastDot
                 THEN ReplaceFirst(DropChars(numStr, {"."}), ",", ".")
                 ELSE DropChars(numStr, {","})
        ELSE IF commas > 0
          THEN IF Len(numStr) - lastComma = 2 /\ (twoParts => commas = 1)
                 THEN ReplaceFirst(numStr, ",", ".")
                 ELSE DropChars(numStr, {","})
        ELSE numStr
      Separators(numStr) ==
        WithSeparators(numStr, CountChars(numStr, {","}), CountChars(numStr, {"."}),
                   LastIndexOf(numStr, ","), LastIndexOf(numStr, "."))
  IN Separators(DropChars(token, WhiteSpace))

\* [...new Set(amounts)].sort((a, b) => b - a)
RECURSIVE Descending(_)
Descending(amounts) ==
  LET From(top) == <<top>> \o Descending(amounts \ {top})
  IN IF amounts = {} THEN <<>>
     ELSE From(CHOOSE a \in amounts : \A b \in amounts : b <= a)

\* the numbers parsed from tokens that pass num > 0 && num < 100000
Amounts(tokens, Number(_)) ==
  {Value(num) : num \in {n \in {Number(tokens[i]) : i \in DOMAIN tokens} :
                           IsSome(n) /\ Value(n) > 0 /\ Value(n) < 100000000}}

\* services/offlineOCR.ts extractAllAmounts with AMOUNT_PATTERNS
extractAllAmounts_V1(text) ==
  LET base == [lead |-> 6, group |-> {","}, decimal |-> {"."}, optional |-> FALSE,
               tail |-> "", before |-> "", after |-> "", keywords |-> {}]
      dollar == [base EXCEPT !.optional = TRUE, !.before = "$"]
      near == [base EXCEPT !.before = "keyword",
                 !.keywords = {"total", "amount", "due", "subtotal", "tax", "tip"}]
      money == [base EXCEPT !.tail = "s"]
      Number(numStr) == ParseFloat(DropChars(numStr, {"$", ","} \cup WhiteSpace))
  IN Descending(Amounts(MatchAll(text, 1, dollar) \o MatchAll(text, 1, near)
                          \o MatchAll(text, 1, money), Number))

\* part_001 extractAllAmounts
extractAllAmounts_V2(text) ==
  LET pattern == [lead |-> 3, group |-> {",", "."} \cup WhiteSpace, decimal |-> {".", ","},
                  optional |-> TRUE, tail |-> "", before |-> "", after |-> "",
                  keywords |-> {}]
      Number(token) == ParseFloat(NormalizeAmount(token, FALSE))
  IN Descending(Amounts(MatchAll(text, 1, pattern), Number))

\* part_000 extractAllAmounts
extractAllAmounts_V3(text) ==
  LET standard == [lead |-> 3, group |-> {",", "."} \cup WhiteSpace, decimal |-> {".", ","},
                   optional |-> FALSE, tail |-> "b", before |-> "", after |-> "",
                   keywords |-> {}]
      plain == [standard EXCEPT !.lead = 1000, !.group = {}, !.tail = ""]
      symbolBefore == [plain EXCEPT !.before = "currency"]
      symbolAfter == [plain EXCEPT !.after = "currency"]
      Number(token) == ParseFloat(NormalizeAmount(token, TRUE))
  IN Descending(Amounts(MatchAll(text, 1, standard) \o MatchAll(text, 1, symbolBefore)
                          \o MatchAll(text, 1, symbolAfter), Number))

(***************************************************************************)
(* Totals: total, subtotal and tax located in the text                     *)
(***************************************************************************)
NoTotals == [total |-> None, subtotal |-> None, tax |-> None]

\* line.includes(k) for some keyword k
IncludesAny(line, keywords) == \E k \in keywords : Includes(line, k)

\* services/offlineOCR.ts extractAmounts(text, allAmounts), with TOTAL_KEYWORDS,
\* SUBTOTAL_KEYWORDS and TAX_KEYWORDS (lines 246-274)
extractAmounts(text, allAmounts) ==
  LET TOTAL_KEYWORDS == {"grand total", "total due", "amount due", "balance due", "total",
                         "please pay", "amount"}
      SUBTOTAL_KEYWORDS == {"subtotal", "sub-total", "sub total", "merchandise", "items"}
      TAX_KEYWORDS == {"tax", "sales tax", "vat", "gst", "hst", "pst"}
      pattern == [lead |-> 6, group |-> {","}, decimal |-> {"."}, optional |-> FALSE,
                  tail |-> "", before |-> "", after |-> "", keywords |-> {}]
      Positive(amount) == IF IsSome(amount) /\ Value(amount) > 0 THEN amount ELSE None
      \* parseFloat(amountMatch[1].replace(',', '')) of the first match, if positive
      Parsed1(amountMatch) ==
        IF Len(amountMatch) = 0 THEN None
        ELSE Positive(ParseFloat(ReplaceFirst(amountMatch[1], ",", "")))
      Amount(line) == Parsed1(MatchAll(line, 1, pattern))
      Always(line, amount) == TRUE
      \* amounts[i] is the amount of lines[i]
      Located(lines, amounts) ==
        LET At(at) == IF at = 0 THEN None ELSE amounts[at]
            Near(keywords, Accepts(_, _)) ==
              At(First({i \in DOMAIN lines :
                    /\ IncludesAny(lines[i], keywords)
                    /\ IsSome(amounts[i])
                    /\ Accepts(lines[i], Value(amounts[i]))}))
            Rest(total) ==
              LET limit == IF IsSome(total) THEN Value(total) ELSE allAmounts[1]
                  IsTax(line, amount) ==
                    ~Includes(line, "pre-tax") /\ ~Includes(line, "pre tax") /\ amount < limit
              IN [total |-> IF IsSome(total) THEN total ELSE Some(allAmounts[1]),
                  subtotal |-> Near(SUBTOTAL_KEYWORDS, Always),
                  tax |-> Near(TAX_KEYWORDS, IsTax)]
        IN Rest(Near(TOTAL_KEYWORDS, Always))
      Lines(lines) == Located(lines, [i \in DOMAIN lines |-> Amount(lines[i])])
  IN IF Len(allAmounts) = 0 THEN NoTotals
     ELSE Lines(SplitLines(ToLowerCase(text)))

\* services/nativeOCR.ts extractTotals(bottomRegion, fullText); the keywords
\* are those of the Latin-1 range
extractTotals_native(bottomRegion, fullText) ==
  LET totalKeywords == {"grand total", "total due", "amount due", "balance due", "total",
                        "totale", "totali", "gesamt", "summe", "total a pagar", "montant",
                        "totaal", "suma", "razem", "celkem"}
      subtotalKeywords == {"subtotal", "sub-total", "sub total", "netto", "nëntotali",
                           "sottototal", "zwischensumme", "subtotaal", "podzbiór"}
      taxKeywords == {"tax", "vat", "gst", "hst", "pst", "mwst", "iva", "tva", "tvsh",
                      "imposto", "mehrwertsteuer", "btw", "podatek"}
      amountPattern == [lead |-> 3, group |-> {",", "."} \cup WhiteSpace,
                        decimal |-> {".", ","}, optional |-> TRUE, tail |-> "",
                        before |-> "", after |-> "", keywords |-> {}]
      Positive(tokens, Number(_)) ==
        {Value(num) : num \in {n \in {Number(tokens[i]) : i \in DOMAIN tokens} :
                                 Value(n) > 0}}
      Largest(amounts) == CHOOSE a \in amounts : \A b \in amounts : b <= a
      Parsed1(a) == ParseFloat(NormalizeAmount(a, FALSE))
      Keyed(found, line, amount) ==
        IF found.total = None /\ IncludesAny(line, totalKeywords)
          THEN [found EXCEPT !.total = amount]
        ELSE IF found.subtotal = None /\ IncludesAny(line, subtotalKeywords)
          THEN [found EXCEPT !.subtotal = amount]
        ELSE IF found.tax = None /\ IncludesAny(line, taxKeywords)
          THEN [found EXCEPT !.tax = amount]
        ELSE found
      Amounts1(found, line, parsedAmounts) ==
        IF parsedAmounts = {} THEN found
        ELSE Keyed(found, line, Some(Largest(parsedAmounts)))
      Step(found, line) ==
        Amounts1(found, line, Positive(MatchAll(line, 1, amountPattern), Parsed1))
      \* the fallback: every ',' becomes '.', and all '.' but the last are dropped
      LastOnly(n, lastSep) ==
        IF lastSep = 0 THEN ParseFloat(n)
        ELSE ParseFloat(DropChars(SubSeq(n, 1, lastSep - 1), {",", "."}) \o "."
                          \o SubSeq(n, lastSep + 1, Len(n)))
      Dotted(n) ==
        LastOnly(n, First({i \in 1..Len(n) :
                      /\ CharAt(n, i) \in {",", "."}
                      /\ \A j \in (i + 1)..Len(n) : CharAt(n, j) \notin {",", "."}}))
      Parsed2(a) == Dotted(DropChars(a, WhiteSpace))
      Fallback(keyed, parsed) ==
        IF keyed.total = None /\ parsed # {}
          THEN [keyed EXCEPT !.total = Some(Largest(parsed))]
          ELSE keyed
      Lines(lines) ==
        LET after[i \in 0..Len(lines)] ==
              IF i = 0 THEN NoTotals ELSE Step(after[i - 1], lines[i])
        IN Fallback(after[Len(lines)],
                    Positive(MatchAll(bottomRegion.text, 1, amountPattern), Parsed2))
  IN Lines(SplitLines(ToLowerCase(bottomRegion.text \o "\n" \o fullText)))

\* part_000 extractTotals(text, allAmounts), with TOTAL_KEYWORDS, SUBTOTAL_KEYWORDS
\* and TAX_KEYWORDS (lines 364-406); the keywords are those of the Latin-1 range
extractTotals_V3(text, allAmounts) ==
  LET TOTAL_KEYWORDS == {"grand total", "total due", "amount due", "balance due",
                         "total amount", "total", "amount", "gesamtsumme", "gesamt", "summe",
                         "endsumme", "zu zahlen", "betrag", "totale", "totale dovuto",
                         "importo", "importo totale", "montant", "montant total", "total ttc",
                         "a payer", "importe", "importe total", "total a pagar", "totaal",
                         "totaalbedrag", "te betalen", "totali", "shuma", "vlera", "paguar",
                         "suma", "razem", "valor total"}
      SUBTOTAL_KEYWORDS == {"subtotal", "sub-total", "sub total", "netto", "net",
                            "zwischensumme", "nettobetrag", "subtotale", "imponibile",
                            "sous-total", "ht", "base imponible", "subtotaal", "nëntotali",
                            "nentotali", "suma netto"}
      TAX_KEYWORDS == {"tax", "sales tax", "vat", "gst", "hst", "pst", "mwst", "ust",
                       "mehrwertsteuer", "iva", "tva", "igic", "btw", "tvsh", "podatek"}
      Keyed(found, line, amount) ==
        LET Tax(total) ==
              LET limit == IF IsSome(total) THEN Value(total)
                           ELSE IF Len(allAmounts) > 0 THEN allAmounts[1]
                           ELSE 1000000
              IN [total |-> total,
                  subtotal |-> IF found.subtotal = None
                                    /\ IncludesAny(line, SUBTOTAL_KEYWORDS)
                                 THEN Some(amount) ELSE found.subtotal,
                  tax |-> IF found.tax = None /\ IncludesAny(line, TAX_KEYWORDS)
                               /\ amount < limit
                            THEN Some(amount) ELSE found.tax]
        IN Tax(IF found.total = None /\ IncludesAny(line, TOTAL_KEYWORDS)
                    /\ ~Includes(line, "sub")
                 THEN Some(amount) ELSE found.total)
      Amounts1(found, line, lineAmounts) ==
        IF Len(lineAmounts) = 0 THEN found ELSE Keyed(found, line, lineAmounts[1])
      Step(found, line) == Amounts1(found, line, extractAllAmounts_V3(line))
      Swapped(filled) ==
        IF IsSome(filled.total) /\ IsSome(filled.subtotal)
             /\ Value(filled.subtotal) > Value(filled.total)
          THEN [filled EXCEPT !.total = filled.subtotal, !.subtotal = filled.total]
          ELSE filled
      Filled(keyed) ==
        Swapped(IF keyed.total = None /\ Len(allAmounts) > 0
                  THEN [keyed EXCEPT !.total = Some(allAmounts[1])]
                  ELSE keyed)
      Lines(lines) ==
        LET after[i \in 0..Len(lines)] ==
              IF i = 0 THEN NoTotals ELSE Step(after[i - 1], lines[i])
        IN Filled(after[Len(lines)])
  IN Lines(SplitLines(ToLowerCase(text)))

(***************************************************************************)
(* Dates: the date patterns and the reading of their matches               *)
(***************************************************************************)
\* `${year}-${month}-${day}` with month and day padded to two digits. The
\* dates are written as the numbers YYYYMMDD, which are ordered as the strings
\* YYYY-MM-DD are.
IsoDate(year, month, day) == 10000 * year + 100 * month + day

\* the date pushed or returned for year, month and day: none unless
\* month >= 1 && month <= 12 && day >= 1 && day <= 31 && year >= 2020 && year <= 2030
Validated(year, month, day) ==
  IF month >= 1 /\ month <= 12 /\ day >= 1 /\ day <= 31 /\ year >= 2020 /\ year <= 2030
    THEN <<IsoDate(year, month, day)>>
    ELSE <<>>

monthMap ==
  [jan |-> 1, feb |-> 2, mar |-> 3, apr |-> 4, may |-> 5, jun |-> 6,
   jul |-> 7, aug |-> 8, sep |-> 9, oct |-> 10, nov |-> 11, dec |-> 12]

\* One match of a date pattern at index i of s: its three groups and the index
\* where the search goes on; None when the pattern does not match at i. The
\* patterns are
\*   "numeric"  (\d{1,2})[seps](\d{1,2})[seps](\d{year})
\*   "iso"      (\d{4})-(\d{2})-(\d{2})
\*   "month"    (Jan|...|Dec)[a-z]*\.?\s+(\d{1,2}),?\s+(\d{4}), ignoring case
\* with or without \b at the start, and followed by nothing, by (?!\d) ("d")
\* or by \b ("b").
\* A group \d{1,2} in front of a separator matches a run of one or two digits
\* only, so no pattern has more than one way to match at an index.
DateAt(s, i, p) ==
  LET Match(a, b, k, n) ==
        [a |-> a, b |-> b, y |-> SubSeq(s, k, k + n - 1), next |-> k + n]
      Ends(k, n) ==
        CASE p.tail = "" -> TRUE
          [] p.tail = "d" -> CharAt(s, k + n) \notin DigitChars
          [] p.tail = "b" -> CharAt(s, k + n) \notin WordChars
      Starts == p.start => CharAt(s, i - 1) \notin WordChars
      \* numeric: the year at index k
      Year(a, b, k) ==
        IF DigitRun(s, k) >= p.year /\ Ends(k, p.year) THEN Some(Match(a, b, k, p.year))
        ELSE None
      Group2(a, j, n2) ==
        IF n2 \in 1..2 /\ CharAt(s, j + n2) \in p.seps
          THEN Year(a, SubSeq(s, j, j + n2 - 1), j + n2 + 1)
          ELSE None
      Group1(n1) ==
        IF n1 \in 1..2 /\ CharAt(s, i + n1) \in p.seps /\ Starts
          THEN Group2(SubSeq(s, i, i + n1 - 1), i + n1 + 1, DigitRun(s, i + n1 + 1))
          ELSE None
      Iso ==
        IF /\ DigitRun(s, i) = 4 /\ CharAt(s, i + 4) = "-"
           /\ DigitRun(s, i + 5) = 2 /\ CharAt(s, i + 7) = "-"
           /\ DigitRun(s, i + 8) >= 2 /\ Ends(i + 8, 2) /\ Starts
          THEN Some(Match(SubSeq(s, i, i + 3), SubSeq(s, i + 5, i + 6), i + 8, 2))
          ELSE None
      \* month: the year at index k
      MonthYear(name, day, k) ==
        IF DigitRun(s, k) >= 4 THEN Some(Match(name, day, k, 4)) ELSE None
      Space2(name, day, c) ==
        IF CharAt(s, c) \in WhiteSpace THEN MonthYear(name, day, SkipClass(s, c, WhiteSpace))
        ELSE None
      Day(name, j, n) ==
        IF n \in 1..2
          THEN Space2(name, SubSeq(s, j, j + n - 1),
                      IF CharAt(s, j + n) = "," THEN j + n + 1 ELSE j + n)
          ELSE None
      Space1(name, j) == Day(name, j, DigitRun(s, j))
      Dot(name, d) ==
        IF CharAt(s, d) \in WhiteSpace THEN Space1(name, SkipClass(s, d, WhiteSpace))
        ELSE None
      Letters(e) == Dot(SubSeq(s, i, i + 2), IF CharAt(s, e) = "." THEN e + 1 ELSE e)
      Month ==
        IF /\ i + 2 <= Len(s)
           /\ ToLowerCase(SubSeq(s, i, i + 2)) \in DOMAIN monthMap
           /\ Starts
          THEN Letters(SkipClass(s, i + 3, AsciiLetters))
          ELSE None
  IN CASE p.kind = "numeric" -> Group1(DigitRun(s, i))
       [] p.kind = "iso" -> Iso
       [] p.kind = "month" -> Month

\* the matches of a global date pattern in s from index i on, in order: the
\* loop while ((match = pattern.exec(text)) !== null) after lastIndex = i - 1
RECURSIVE MatchDates(_, _, _)
MatchDates(s, i, p) ==
  LET Rest(m) == <<Value(m)>> \o MatchDates(s, Value(m).next, p)
      At(j) == IF j = 0 THEN <<>> ELSE Rest(DateAt(s, j, p))
  IN At(First({j \in i..Len(s) : DateAt(s, j, p) # None}))

\* [...new Set(dates)]: the first occurrence of each date, in order
Unique(dates) ==
  LET kept[k \in 0..Len(dates)] ==
        IF k = 0 THEN <<>>
        ELSE IF \E j \in 1..(k - 1) : dates[j] = dates[k] THEN kept[k - 1]
        ELSE Append(kept[k - 1], dates[k])
  IN kept[Len(dates)]

\* the dates that Read makes of the matches of the patterns, pattern by pattern
DatesOf(text, patterns, Read(_, _)) ==
  LET Pushed(p, matches) ==
        LET pushed[k \in 0..Len(matches)] ==
              IF k = 0 THEN <<>> ELSE pushed[k - 1] \o Read(p, matches[k])
        IN pushed[Len(matches)]
      all[n \in 0..Len(patterns)] ==
        IF n = 0 THEN <<>>
        ELSE all[n - 1] \o Pushed(patterns[n], MatchDates(text, 1, patterns[n]))
  IN all[Len(patterns)]

\* parseInt(match[3]) of a year of two digits: 1900 + year or 2000 + year
Century(year, split) ==
  IF year >= 100 THEN year
  ELSE IF split /\ year > 50 THEN 1900 + year
  ELSE 2000 + year

\* day and month of a numeric match read as DD/MM, swapped when
\* month > 12 && day <= 12
DayFirst(day, month, year, swap) ==
  IF swap /\ ~(day > 12 /\ month <= 12) /\ month > 12 /\ day <= 12
    THEN Validated(year, day, month)
    ELSE Validated(year, month, day)

\* services/offlineOCR.ts extractAllDates with DATE_PATTERNS. A match of the
\* fourth pattern, "15 January 2025", starts with a digit and is read as MM/DD/YYYY:
\* its day is parseInt of the month name, NaN, and it is never pushed.
extractAllDates_V1(text) ==
  LET numeric == [kind |-> "numeric", seps |-> {"/", "-"}, year |-> 4, start |-> FALSE,
                  tail |-> ""]
      Read(p, m) ==
        CASE p.kind = "month" ->
               Validated(StringToInt(m.y), monthMap[ToLowerCase(m.a)], StringToInt(m.b))
          [] p.kind = "numeric" /\ p.year = 4 ->
               Validated(StringToInt(m.y), StringToInt(m.a), StringToInt(m.b))
          [] p.kind = "numeric" /\ p.year = 2 ->
               Validated(2000 + StringToInt(m.y), StringToInt(m.a), StringToInt(m.b))
  IN Unique(DatesOf(text, <<numeric, [numeric EXCEPT !.year = 2, !.tail = "d"],
                            [numeric EXCEPT !.kind = "month"]>>, Read))

\* services/offlineOCR.ts extractBestDate(dates), on the day today
extractBestDate(dates, today) ==
  LET validDates == {dates[i] : i \in {j \in DOMAIN dates : dates[j] <= today}}
  IN IF Len(dates) = 0 THEN None
     ELSE IF Len(dates) = 1 THEN Some(dates[1])
     ELSE IF validDates = {} THEN Some(dates[1])
     ELSE Some(CHOOSE d \in validDates : \A e \in validDates : e <= d)

\* part_001 extractAllDates
extractAllDates_V2(text) ==
  LET numeric == [kind |-> "numeric", seps |-> {".", "/"}, year |-> 4, start |-> FALSE,
                  tail |-> ""]
      Read(p, m) ==
        IF Len(m.a) = 4
          THEN Validated(StringToInt(m.a), StringToInt(m.b), StringToInt(m.y))
          ELSE Validated(Century(StringToInt(m.y), FALSE), StringToInt(m.b), StringToInt(m.a))
  IN Unique(DatesOf(text, <<numeric, [numeric EXCEPT !.year = 2, !.tail = "d"],
                            [numeric EXCEPT !.kind = "iso"]>>, Read))

\* services/nativeOCR.ts extractDate: the first match of each pattern, and the
\* first of them that is a valid date
extractDate(text) ==
  LET numeric == [kind |-> "numeric", seps |-> {".", "/"}, year |-> 4, start |-> FALSE,
                  tail |-> ""]
      patterns == <<numeric, [numeric EXCEPT !.year = 2, !.tail = "d"],
                    [numeric EXCEPT !.kind = "iso"], [numeric EXCEPT !.seps = {"/"}],
                    [numeric EXCEPT !.kind = "month"]>>
      Read(p, m) ==
        CASE p.kind = "month" ->
               Validated(StringToInt(m.y), monthMap[ToLowerCase(m.a)], StringToInt(m.b))
          [] p.kind = "iso" ->
               Validated(StringToInt(m.a), StringToInt(m.b), StringToInt(m.y))
          [] p.kind = "numeric" ->
               DayFirst(StringToInt(m.a), StringToInt(m.b), Century(StringToInt(m.y), TRUE),
                        TRUE)
      FirstOf(p, matches) == IF Len(matches) = 0 THEN <<>> ELSE Read(p, matches[1])
      found[n \in 0..Len(patterns)] ==
        IF n = 0 THEN <<>>
        ELSE found[n - 1] \o FirstOf(patterns[n], MatchDates(text, 1, patterns[n]))
      Returned1(dates) == IF Len(dates) = 0 THEN None ELSE Some(dates[1])
  IN Returned1(found[Len(patterns)])

\* part_000 extractAllDates
extractAllDates_V3(text) ==
  LET numeric == [kind |-> "numeric", seps |-> {".", "/", "-"}, year |-> 4, start |-> TRUE,
                  tail |-> "b"]
      Read(p, m) ==
        IF Len(m.a) = 4
          THEN Validated(StringToInt(m.a), StringToInt(m.b), StringToInt(m.y))
        ELSE IF p.kind = "month"
          THEN Validated(StringToInt(m.y), monthMap[ToLowerCase(m.a)], StringToInt(m.b))
        ELSE DayFirst(StringToInt(m.a), StringToInt(m.b), Century(StringToInt(m.y), TRUE),
                      TRUE)
  IN Unique(DatesOf(text, <<numeric, [numeric EXCEPT !.year = 2],
                            [numeric EXCEPT !.kind = "iso"],
                            [numeric EXCEPT !.kind = "month", !.tail = ""]>>, Read))

(***************************************************************************)
(* The structured fields that a pipeline extracts from the OCR text        *)
(***************************************************************************)
\* services/offlineOCR.ts processReceiptImage from rawText on, run on the day today
extractFields_V1(text, learnedMerchants, today) ==
  LET Fields(allAmounts, allDates, receipt) ==
        LET Categorized(totals, suggestion) ==
              [merchantName |-> receipt.merchantName,
               total |-> totals.total, subtotal |-> totals.subtotal, tax |-> totals.tax,
               date |-> extractBestDate(allDates, today),
               suggestedCategory |-> suggestion.category,
               categoryConfidence |-> suggestion.confidence,
               allAmounts |-> allAmounts, allDates |-> allDates]
        IN Categorized(extractAmounts(text, allAmounts),
                       suggestCategory("V1", receipt, learnedMerchants))
  IN Fields(extractAllAmounts_V1(text), extractAllDates_V1(text),
            ReceiptOf_V1([text |-> text]))

\* part_000 processReceiptImage from rawText on
extractFields_V3(text, learnedMerchants) ==
  LET Fields(allAmounts, allDates, receipt) ==
        LET Categorized(totals, suggestion) ==
              [merchantName |-> receipt.merchantName,
               total |-> totals.total, subtotal |-> totals.subtotal, tax |-> totals.tax,
               date |-> IF Len(allDates) > 0 THEN Some(allDates[1]) ELSE None,
               suggestedCategory |-> suggestion.category,
               categoryConfidence |-> suggestion.confidence,
               allAmounts |-> allAmounts, allDates |-> allDates]
        IN Categorized(extractTotals_V3(text, allAmounts),
                       suggestCategory("V3", receipt, learnedMerchants))
  IN Fields(extractAllAmounts_V3(text), extractAllDates_V3(text),
            ReceiptOf_V3([text |-> text]))

(***************************************************************************)
(* The field extractors as functions of their input                        *)
(***************************************************************************)
\* lines of receipts
ReceiptLines ==
  {"TOTAL 5.00", "Subtotal 10.00", "Tax 0.80", "Latte 4.50", "Summe 7,00",
   "MwSt 1,10 Netto 5,90"}

\* the longest text, in lines
MaxLines == 3

Texts ==
  {JoinLines(lines) : lines \in UNION {[1..n -> ReceiptLines] : n \in 1..MaxLines}}

\* the last line of a text
LastLine(text) == SplitLines(text)[Len(SplitLines(text))]

\* total, subtotal and tax as each version's scan locates them: offlineOCR.ts
\* processReceiptImage, scanReceipt of nativeOCR.ts on the bottom region and
\* the full text, and part_000 processReceiptImage
locateTotals(v, bottom, text) ==
  CASE v = "V1" -> extractAmounts(text, extractAllAmounts_V1(text))
    [] v = "V2" -> extractTotals_native([text |-> bottom], text)
    [] v = "V3" -> extractTotals_V3(text, extractAllAmounts_V3(text))

\* a call of an extractor that was not made yet
Call(op, v, input) ==
  [op |-> op, version |-> v, input |-> input, done |-> FALSE, result |-> None]

\* receipts of this week
ScanTexts ==
  {JoinLines(<<head, date, total>>) :
     head \in {"Joe's Diner", "STARBUCKS STORE 0421", "Receipt"},
     date \in {"11/04/2026 18:32", "Date 11/04/2026 valid until 11/06/2026", "2026-11-04",
               "Latte 4.50"},
     total \in {"TOTAL 11.00", "Subtotal 10.00 Tax 1.00", "11/06/2026"}}

\* amounts as receipts print them
AmountTokens ==
  {"1.234,56", "1,234.56", "45,99", "1,234", "12.50", "1 234,56", "1,234,56", "$1,234",
   "7", "0,50"}

\* numeric dates a/b/y and a.b.y, with days, months and years at and beyond
\* the bounds of their ranges
Triplets ==
  {[a |-> a, b |-> b, y |-> y,
    text |-> IntToString(a) \o sep \o IntToString(b) \o sep \o IntToString(y)] :
     a \in {0, 1, 12, 13, 31, 32}, b \in {0, 1, 12, 13, 31, 32},
     y \in {2019, 2020, 2026, 2030, 2031}, sep \in {"/", "."}}

\* blocks of an OCR result by the place of their centre: above 0.2, at 0.2,
\* between, at 0.7 and below 0.7 of the height (bounds in thousandths)
BlockKinds ==
  {[text |-> "A", confidence |-> 90, bounds |-> [y |-> 20, height |-> 40]],
   [text |-> "B", confidence |-> 80, bounds |-> [y |-> 180, height |-> 40]],
   [text |-> "C", confidence |-> 70, bounds |-> [y |-> 400, height |-> 40]],
   [text |-> "D", confidence |-> 60, bounds |-> [y |-> 680, height |-> 40]],
   [text |-> "E", confidence |-> 50, bounds |-> [y |-> 900, height |-> 40]]}

\* the most blocks of an OCR result
MaxBlocks == 3

OCRResults ==
  {[text |-> JoinLines([i \in DOMAIN blocks |-> blocks[i].text]), confidence |-> 80,
    blocks |-> blocks, blockCount |-> Len(blocks)] :
     blocks \in UNION {[1..n -> BlockKinds] : n \in 0..MaxBlocks}}

\* the first lines of receipts
HeaderLines ==
  {"RECEIPT", "12/03/2024", "STARBUCKS STORE 0421", "Joe's Diner", "12345", "  Zum Hirsch "}

\* the most lines of a header
MaxHeader == 2

Headers ==
  {JoinLines(lines) : lines \in UNION {[1..n -> HeaderLines] : n \in 1..MaxHeader}}

\* every pattern of every rule of a built-in merchant table, as a receipt text
PatternTexts(v) ==
  UNION {{[rule |-> i, text |-> BUILT_IN_MERCHANTS(v)[i].patterns[k]] :
            k \in DOMAIN BUILT_IN_MERCHANTS(v)[i].patterns} :
         i \in DOMAIN BUILT_IN_MERCHANTS(v)}

\* the calls that are checked: for the totals each version on each text,
\* scanReceipt with an empty bottom region and with the last line as the bottom
\* region
FieldCalls ==
  {Call("totals", v, [bottom |-> "", text |-> t]) : v \in Versions, t \in Texts}
    \cup {Call("totals", "V2", [bottom |-> LastLine(t), text |-> t]) : t \in Texts}
    \cup {Call("totals", "V2", [bottom |-> "", text |-> "total " \o t]) : t \in AmountTokens}
    \cup {Call("fields", v, [text |-> t]) : v \in {"V1", "V3"}, t \in ScanTexts}
    \cup {Call("amounts", v, [text |-> t]) : v \in {"V2", "V3"}, t \in AmountTokens}
    \cup {Call("dates", v, t) : v \in {"V2", "V3"}, t \in Triplets}
    \cup {Call("date", "V2", t) : t \in Triplets}
    \cup {Call("regions", "V2", r) : r \in OCRResults}
    \cup {Call("merchant", v, [text |-> t]) : v \in {"V2", "V3"}, t \in Headers}
    \cup UNION {{Call("builtIn", v, t) : t \in PatternTexts(v)} : v \in Versions}

Returns(value) ==
  /\ ~last.done
  /\ last' = [last EXCEPT !.done = TRUE, !.result = Some(value)]
  /\ UNCHANGED <<stored, clock, scanVars>>

LocateTotals ==
  /\ last.op = "totals"
  /\ Returns(locateTotals(last.version, last.input.bottom, last.input.text))

\* extractAllAmounts of part_001 and of part_000
ExtractAllAmounts ==
  /\ last.op = "amounts"
  /\ Returns(IF last.version = "V2" THEN extractAllAmounts_V2(last.input.text)
             ELSE extractAllAmounts_V3(last.input.text))

\* extractAllDates of part_001 and of part_000
ExtractAllDates ==
  /\ last.op = "dates"
  /\ Returns(IF last.version = "V2" THEN extractAllDates_V2(last.input.text)
             ELSE extractAllDates_V3(last.input.text))

\* extractDate of nativeOCR.ts
ExtractDate ==
  /\ last.op = "date"
  /\ Returns(extractDate(last.input.text))

\* simulateRegions of nativeOCR.ts
SimulateRegions ==
  /\ last.op = "regions"
  /\ Returns(simulateRegions(last.input))

\* extractMerchant of nativeOCR.ts on a top region, and of part_000 on a text
extractMerchant(v, text) ==
  IF v = "V2" THEN extractMerchant_native([text |-> text]) ELSE extractMerchant_V3(text)

ExtractMerchant ==
  /\ last.op = "merchant"
  /\ Returns(extractMerchant(last.version, last.input.text))

\* the loop of suggestCategory over the built-in table, on a text with no merchant name
MatchBuiltIn ==
  /\ last.op = "builtIn"
  /\ Returns(FirstBuiltIn(last.version, [text |-> last.input.text, merchantName |-> None]))

\* new Date().toISOString().split('T')[0]: the day of the clock
Today == 20261105 + clock

\* the days that pass while a text is extracted twice
MaxDays == 1

\* one run of a pipeline on the text, the first or the second
ExtractFields ==
  /\ last.op = "fields"
  /\ ~last.done
  /\ LET learnedMerchants == getLearnedMerchants(stored, {})
         fields == IF last.version = "V1"
                     THEN extractFields_V1(last.input.text, learnedMerchants, Today)
                     ELSE extractFields_V3(last.input.text, learnedMerchants)
     IN last' = [last EXCEPT !.result = Append(last.result, fields),
                             !.done = Len(last.result) = 1]
  /\ UNCHANGED <<stored, clock, scanVars>>

\* midnight between two runs
DayPasses ==
  /\ last.op = "fields"
  /\ Len(last.result) = 1
  /\ clock < MaxDays
  /\ clock' = clock + 1
  /\ UNCHANGED <<stored, last, scanVars>>

InitFields ==
  /\ last \in FieldCalls
  /\ stored = Some(LearnedBefore)
  /\ clock = 0
  /\ ScansIdle

NextFields == LocateTotals \/ ExtractFields \/ DayPasses \/ ExtractAllAmounts
    \/ ExtractAllDates \/ ExtractDate \/ SimulateRegions
    \/ ExtractMerchant \/ MatchBuiltIn

SpecFields == InitFields /\ [][NextFields]_vars

\* C11: a callback that throws at a milestone does not abort the scan: no scan
\* rejects with the exception of its onProgress callback.
C11_CallbackNeverAborts ==
  \A p \in Scans : ~(scans[p].pc = "failed" /\ scans[p].error = "onProgress")

(***************************************************************************)
(* Claims about the field extractors                                       *)
(***************************************************************************)
\* C12: in every result of the field locator, a total and a subtotal that are
\* both non-null satisfy total >= subtotal.
C12_TotalAtLeastSubtotal ==
  (last.op = "totals" /\ last.done) =>
    LET found == Value(last.result)
    IN (IsSome(found.total) /\ IsSome(found.subtotal)) =>
         Value(found.total) >= Value(found.subtotal)

\* C13: a scan only reads the learning store: no step of a scan, successful or
\* failed, changes the persisted collection of learned merchants.
C13_ScanLeavesStore == [][stored' = stored]_vars

\* a scan has returned a category that it read from the learning store, and
\* another scan has failed
C13_Witness ==
  \E p, q \in Scans :
    /\ scans[p].pc = "done"
    /\ Value(scans[p].result).suggestedCategory = Some("Custom Food")
    /\ scans[q].pc = "failed"
    /\ stored = Some(LearnedBefore)

\* C14: two runs of the extraction pipeline on the same OCR text with the same
\* learning store yield the same structured fields.
C14_SameFieldsTwice ==
  (last.op = "fields" /\ Len(last.result) = 2) => last.result[1] = last.result[2]

\* C15: a scan classifies the category before it gates the merchant field by
\* confidence: wherever scanReceipt has gated the merchant name and returned,
\* the category of that scan has been classified.
C15_ClassifiedBeforeGated ==
  \A p \in Scans : IsSome(scans[p].parsed) => IsSome(scans[p].result)

\* C16: for a receipt with no merchant name and a text in which no learned name
\* occurs, no learned entry decides: the classification is the one that the
\* built-in table and the keywords give without any learned entry.
C16_NoMerchantNoLearned ==
  (/\ last.op = "suggest"
   /\ last.merchantName = None
   /\ \A i \in DOMAIN EntriesRead : ~Includes(ToLowerCase(last.text), EntriesRead[i].name)) =>
    last.result = suggestCategory(last.version,
                                  [text |-> last.text, merchantName |-> None], <<>>)

\* C17: the amount parser reads "1.234,56" and "1,234.56" as 1234.56, "45,99"
\* as 45.99 and "1,234" as 1234: extractAllAmounts of part_001 and part_000
\* return that amount for the token, and extractTotals of nativeOCR.ts finds
\* it as the total of the line "total <token>".
C17_SeparatorsNormalized ==
  LET examples == {<<"1.234,56", 1234560>>, <<"1,234.56", 1234560>>, <<"45,99", 45990>>,
                   <<"1,234", 1234000>>}
  IN \A e \in examples :
       /\ (last.op = "amounts" /\ last.done /\ last.input.text = e[1]) =>
            Value(last.result) = <<e[2]>>
       /\ (last.op = "totals" /\ last.done /\ last.version = "V2"
             /\ last.input.text = "total " \o e[1]) =>
            Value(last.result).total = Some(e[2])

\* C18: a numeric date a/b/y is read day-first, and month-first when a <= 12
\* and b > 12; the date is returned if its month is in 1..12, its day in 1..31
\* and its year in 2020..2030, and nothing is returned otherwise.
C18_TripletRead ==
  (last.op \in {"dates", "date"} /\ last.done) =>
    LET a == last.input.a
        b == last.input.b
        swapped == a <= 12 /\ b > 12
        day == IF swapped THEN b ELSE a
        month == IF swapped THEN a ELSE b
        returned == /\ month \in 1..12
                    /\ day \in 1..31
                    /\ last.input.y \in 2020..2030
    IN Value(last.result) = IF returned THEN <<IsoDate(last.input.y, month, day)>> ELSE <<>>

\* C19: simulateRegions puts the blocks whose centre is above 0.2 of the height
\* in top, those whose centre is below 0.7 in bottom and all others, the centres
\* at exactly 0.2 and 0.7 among them, in middle, each region in the order of the
\* input: every block is in exactly one region, none dropped or duplicated.
C19_RegionsPartition ==
  (last.op = "regions" /\ last.done) =>
    LET blocks == last.input.blocks
        regions == Value(last.result).regions
        Centre(block) == 2 * block.bounds.y + block.bounds.height
    IN /\ regions.top.blocks = SelectSeq(blocks, LAMBDA b : Centre(b) < 400)
       /\ regions.bottom.blocks = SelectSeq(blocks, LAMBDA b : Centre(b) > 1400)
       /\ regions.middle.blocks =
            SelectSeq(blocks, LAMBDA b : 400 <= Centre(b) /\ Centre(b) <= 1400)
       /\ Len(regions.top.blocks) + Len(regions.middle.blocks)
            + Len(regions.bottom.blocks) = Len(blocks)

\* an OCR result with a block centred at exactly 0.2, one at exactly 0.7 and one
\* above 0.2 was split: two blocks in middle, one in top
C19_Witness ==
  /\ last.op = "regions"
  /\ last.done
  /\ \E i, j, k \in DOMAIN last.input.blocks :
       /\ TwiceCenterY(last.input.blocks[i]) = 400
       /\ TwiceCenterY(last.input.blocks[j]) = 1400
       /\ TwiceCenterY(last.input.blocks[k]) < 400
  /\ Len(Value(last.result).regions.middle.blocks) = 2
  /\ Len(Value(last.result).regions.top.blocks) = 1

\* C20: the merchant identifier decides on the first line that passes the
\* filters, whatever follows it: null if no line passes, the displayName of
\* the first rule of the merchant table with a pattern in that line if there
\* is one, and otherwise what that line alone gives.
C20_FirstCandidateDecides ==
  (last.op = "merchant" /\ last.done) =>
    LET lines == NonBlank(SplitLines(last.input.text))
        Passes(line) ==
          IF last.version = "V3" THEN Candidate_V3(line) ELSE Candidate_native(line)
        first == First({i \in DOMAIN lines : Passes(lines[i])})
        lowerLine == ToLowerCase(Trim(lines[first]))
        rule == FirstRule(BUILT_IN_MERCHANTS_V3, lowerLine, lowerLine)
        merchant == Value(last.result)
    IN IF first = 0 THEN merchant = None
       ELSE IF rule # 0 THEN merchant = Some(BUILT_IN_MERCHANTS_V3[rule].displayName)
       ELSE merchant = extractMerchant(last.version, lines[first])

(***************************************************************************)
(* The learning store shared by browsing contexts                          *)
(***************************************************************************)
\* saveLearnedMerchant runs to completion in its own page: no other code of
\* that page runs between its getItem and its setItem, and Record above is one
\* step. localStorage is one item per origin, though, shared by every window
\* or tab in which the application is open, and nothing serializes a getItem
\* and a later setItem of one context against the storage operations of
\* another: the call is two steps there.

\* the windows or tabs of the application that share the origin's localStorage
NContexts == 2

Contexts == 1..NContexts

NoRecord ==
  [op |-> "record", pc |-> "idle", name |-> "", category |-> "", merchants |-> <<>>,
   readAt |-> 0, wroteAt |-> 0]

\* const merchants = getLearnedMerchants(): the call's own copy of the collection
ReadCollection(c, name, category) ==
  /\ last[c].pc = "idle"
  /\ last' = [last EXCEPT ![c] =
                [@ EXCEPT !.pc = "read", !.name = name, !.category = category,
                          !.merchants = getLearnedMerchants(stored, {}),
                          !.readAt = clock]]
  /\ UNCHANGED <<stored, clock, scanVars>>

\* Mutant of Persist: the collection is read again when it is written
PersistFresh(c) ==
  /\ last[c].pc = "read"
  /\ clock' = clock + 1
  /\ stored' = saveLearnedMerchant(stored, last[c].name, last[c].category, clock + 1, {}).item
  /\ last' = [last EXCEPT ![c] = [@ EXCEPT !.pc = "done", !.wroteAt = clock + 1]]
  /\ UNCHANGED scanVars

\* the rest of saveLearnedMerchant: the copy is updated, sorted, cut and written
Persist(c) ==
  /\ last[c].pc = "read"
  /\ clock' = clock + 1
  /\ stored' = Some(Truncate(SortByTimesUsed(
                  UpdateOrPush(last[c].merchants, last[c].name, last[c].category, clock + 1))))
  /\ last' = [last EXCEPT ![c] = [@ EXCEPT !.pc = "done", !.wroteAt = clock + 1]]
  /\ UNCHANGED scanVars

ReadStep ==
  \E c \in Contexts, name \in Names, category \in Categories :
    ReadCollection(c, name, category)

PersistStep == \E c \in Contexts : Persist(c)

\* the store is empty or holds what a call at time 1 left
InitContexts ==
  /\ stored \in {None, Some(LearnedBefore)}
  /\ clock = 1
  /\ last = [c \in Contexts |-> NoRecord]
  /\ ScansIdle

NextContexts == ReadStep \/ PersistStep

SpecContexts == InitContexts /\ [][NextContexts]_vars

(***************************************************************************)
(* Learning from the user's corrections                                    *)
(***************************************************************************)
\* names the user types or the OCR detects: empty, blank, one letter, and more
TypedNames == {"", " ", "  ", "A", " X ", "Joe's Diner"}

\* learnFromUserCorrection(originalMerchant, correctedName, selectedCategory):
\* the item left in storage
learnFromUserCorrection(item, originalMerchant, correctedName, selectedCategory, now) ==
  LET Original(first) ==
        IF /\ IsSome(originalMerchant)
           /\ Value(originalMerchant) # correctedName
           /\ Len(Value(originalMerchant)) >= 2
          THEN saveLearnedMerchant(first, Value(originalMerchant), selectedCategory, now, {}).item
          ELSE first
  IN Original(IF Len(correctedName) >= 2
                THEN saveLearnedMerchant(item, correctedName, selectedCategory, now, {}).item
                ELSE item)

Learn(originalMerchant, correctedName, selectedCategory) ==
  /\ clock < MaxCalls
  /\ clock' = clock + 1
  /\ stored' = learnFromUserCorrection(stored, originalMerchant, correctedName,
                                       selectedCategory, clock + 1)
  /\ last' = [NoCall EXCEPT !.op = "learn", !.name = correctedName,
                            !.merchantName = originalMerchant,
                            !.category = selectedCategory]
  /\ UNCHANGED scanVars

LearnCall ==
  \E originalMerchant \in {None} \cup {Some(n) : n \in TypedNames},
     correctedName \in TypedNames, selectedCategory \in Categories :
    Learn(originalMerchant, correctedName, selectedCategory)

\* saveLearnedMerchant called by the application itself
SaveCall ==
  \E name \in TypedNames, category \in Categories : Record(name, category, {})

\* The learning store under corrections, from an empty collection
InitLearn ==
  /\ stored = None
  /\ clock = 0
  /\ last = NoCall
  /\ ScansIdle

NextLearn == LearnCall \/ SaveCall

SpecLearn == InitLearn /\ [][NextLearn]_vars

(***************************************************************************)
(* offlineOCR.ts: scans and terminateOCRWorker                             *)
(***************************************************************************)
\* terminateOCRWorker is called while tesseractWorker is set: the call of
\* tesseractWorker.terminate(), which is awaited
TerminateStart ==
  /\ version = "V1"
  /\ engine.tesseractWorker # 0
  /\ workers[engine.tesseractWorker] = "ready"
  /\ workers' = [workers EXCEPT ![engine.tesseractWorker] = "terminating"]
  /\ UNCHANGED <<engine, scans, version, nativePlugin, storeVars>>

\* terminate() of worker w settles; then tesseractWorker = null
TerminateDone(w) ==
  /\ version = "V1"
  /\ workers[w] = "terminating"
  /\ workers' = [workers EXCEPT ![w] = "terminated"]
  /\ engine' = [engine EXCEPT !.tesseractWorker = 0]
  /\ UNCHANGED <<scans, version, nativePlugin, storeVars>>

\* Scans of offlineOCR.ts by a caller that also terminates the worker
InitEngine == InitScan /\ version = "V1"

NextEngine ==
  \/ \E p \in Scans : StartV1(p)
  \/ \E w \in DOMAIN workers, ok \in BOOLEAN : InitCreateDone(w, ok)
  \/ \E w \in DOMAIN workers, ok \in BOOLEAN : InitConfigureDone(w, ok)
  \/ \E p \in Scans : GotWorker(p)
  \/ \E p \in Scans, data \in TesseractPages : RecognizeReturn(p, data)
  \/ \E p \in Scans : RecognizeThrow(p)
  \/ TerminateStart
  \/ \E w \in DOMAIN workers : TerminateDone(w)

SpecEngine == InitEngine /\ [][NextEngine]_vars

\* C21: no pattern of a built-in merchant table is shadowed: a text that is
\* one pattern of a rule is first matched by that rule, so no earlier rule has
\* a pattern that occurs in it, and every rule is the first match of some text.
C21_NoPatternShadowed ==
  (last.op = "builtIn" /\ last.done) => Value(last.result) = last.input.rule

\* C22: in every result of the field locator where tax and total are both
\* found, the tax is strictly less than the total, whatever the order of the
\* tax and total lines in the text.
C22_TaxBelowTotal ==
  (last.op = "totals" /\ last.done) =>
    LET found == Value(last.result)
    IN (IsSome(found.tax) /\ IsSome(found.total)) =>
         Value(found.tax) < Value(found.total)

\* C23: after any sequence of record and clear calls no two entries of the
\* persisted collection have names that are equal after trim and lowercase.
C23_NamesUnique ==
  LET merchants == getLearnedMerchants(stored, {})
  IN Cardinality({Normalized(merchants[i].name) : i \in DOMAIN merchants}) = Len(merchants)

\* C23 witness: a name recorded in two spellings, the last one with blanks and
\* capitals, is one entry that was used twice
C23_Witness ==
  /\ last.op = "record"
  /\ last.name # Normalized(last.name)
  /\ IsSome(stored)
  /\ Len(Value(stored)) = 1
  /\ Value(stored)[1].name = Normalized(last.name)
  /\ Value(stored)[1].timesUsed = 2

\* the calls of contexts a and b both read the collection before either of
\* them persisted, a persisted first, and nothing was persisted after b
BothReadFirst(a, b) ==
  /\ last[a].pc = "done"
  /\ last[b].pc = "done"
  /\ Normalized(last[a].name) # Normalized(last[b].name)
  /\ last[b].readAt < last[a].wroteAt
  /\ last[a].wroteAt < last[b].wroteAt
  /\ last[b].wroteAt = clock

\* the entry that the call of context c wrote is in the persisted collection
Persisted(c) ==
  \E e \in Range(getLearnedMerchants(stored, {})) :
    e.name = Normalized(last[c].name) /\ e.lastUsed = last[c].wroteAt

\* C24: record is not atomic with respect to a record of another context: when
\* two record operations for distinct names both read the collection before
\* either persists, only the correction persisted last is in the collection.
C24_LostUpdate ==
  \A a, b \in Contexts :
    BothReadFirst(a, b) => (Persisted(b) /\ ~Persisted(a))

\* C24 witness: such an interleaving, after which the first correction is lost
C24_Witness ==
  \E a, b \in Contexts : BothReadFirst(a, b) /\ ~Persisted(a)

\* the initializations in flight: createWorker or setParameters is pending
InFlight == {w \in DOMAIN workers : workers[w] \in {"creating", "configuring"}}

\* C25: in offlineOCR.ts a getWorker call made while an initialization is in
\* flight returns the promise of that initialization and creates no worker, so
\* at most one initialization is in flight at any time and the concurrent scans
\* share its worker.
C25_SharedInitialization ==
  [][ version = "V1" =>
        /\ Cardinality(InFlight') <= 1
        /\ \A p \in Scans :
             (scans[p].worker = 0 /\ scans'[p].worker # 0 /\ InFlight # {})
               => (scans'[p].worker \in InFlight /\ workers' = workers) ]_vars

\* C25 witness: two scans await the promise of the one initialization in flight
C25_Witness ==
  /\ version = "V1"
  /\ workers = <<"creating">>
  /\ engine.workerInitializing
  /\ \A p \in Scans : scans[p].pc = "worker" /\ scans[p].worker = engine.workerInitPromise

\* the names of the persisted collection
StoredNames(item) ==
  {e.name : e \in Range(getLearnedMerchants(item, {}))}

\* C26: a record call on a persisted collection of fewer than 500 entries
\* removes no stored merchant: every name stored before the call is stored
\* after it, also when the read of the storage inside the call fails.
C26_RecordKeepsNames ==
  [][ (last'.op = "record" /\ clock' # clock
         /\ Len(getLearnedMerchants(stored, {})) < MaxLearned)
      => StoredNames(stored) \subseteq StoredNames(stored') ]_vars

\* C27: after any sequence of learnFromUserCorrection and saveLearnedMerchant
\* calls every stored entry has a non-empty name.
C27_NoEmptyName ==
  \A e \in Range(getLearnedMerchants(stored, {})) : e.name # ""

\* C28: no scan is handed, by getWorker, a worker that terminateOCRWorker is
\* terminating, and no scan calls recognize on a worker after its termination
\* has started.
C28_NoTerminatedWorker ==
  [][ \A p \in Scans :
        /\ (scans[p].pc = "idle" /\ scans'[p].pc = "worker")
             => workers'[scans'[p].worker] # "terminating"
        /\ (scans[p].pc = "worker" /\ scans'[p].pc = "recognizing")
             => workers[scans[p].worker] \notin {"terminating", "terminated"} ]_vars

\* the workers whose initialization failed
FailedWorkers == {w \in DOMAIN workers : workers[w] \in {"rejected", "unconfigured"}}

\* C29: a failed initialization is not sticky: a scan that asks for the worker
\* after an initialization has failed is not handed that failure, it starts
\* or joins another initialization.
C29_FailureNotSticky ==
  [][ \A p \in Scans :
        (scans[p].worker = 0 /\ scans'[p].worker # 0)
          => scans'[p].worker \notin FailedWorkers ]_vars

\* C30: usedNativeOCR is true in a result of scanReceipt only if the native
\* engine produced the text of that result: when the native call threw and the
\* bundled engine supplied the text, the result reports false.
C30_UsedNativeTruthful ==
  \A p \in Scans :
    (IsSome(scans[p].parsed) /\ Value(scans[p].parsed).usedNativeOCR)
      => scans[p].native = "returned"

====
